---------------------------- MODULE Spec2Model ----------------------------
(***************************************************************************)
(* Model of the bonnaroo-led GIF player: the simulator's background layer   *)
(* (two planes and swapBuffers), the GifDecoder shim, the SD file callbacks *)
(* and the sketch's loop() with its IR input handling.                      *)
(***************************************************************************)
EXTENDS Integers, Sequences, FiniteSets, TLC

(***************************************************************************)
(* Bounds of the model.                                                     *)
(***************************************************************************)
\* The surface is MatrixW x MatrixH pixels (64 x 64 in the sketch).
MatrixW == 1
MatrixH == 3

\* rgb24 values that occur in the model.
COLOR_BLACK == <<0, 0, 0>>
COLOR_RED == <<255, 0, 0>>
Palette == {COLOR_BLACK, COLOR_RED}

NPixels == MatrixW * MatrixH
PixelIdx == 0 .. (NPixels - 1)
Planes == [PixelIdx -> Palette]
BlackPlane == [i \in PixelIdx |-> COLOR_BLACK]

\* A value computed once and handed on: F applied to the value of v.
Bind(v, F(_)) == CHOOSE r \in {F(x) : x \in {v}} : TRUE

(***************************************************************************)
(* SMLayerBackground: the back plane is the one drawn into, the front      *)
(* plane the one shown.  A layer value is [back |-> plane, front |-> plane].*)
(***************************************************************************)
\* a bounds test that leaves out the lower bounds
InBounds_NoLower(x, y) == x < MatrixW /\ y < MatrixH

InBounds(x, y) == x >= 0 /\ x < MatrixW /\ y >= 0 /\ y < MatrixH

drawPixel_WritesFront(bg, x, y, color) ==
    IF InBounds(x, y)
    THEN [bg EXCEPT !.front[y * MatrixW + x] = color]
    ELSE bg

drawPixel(bg, x, y, color) ==
    IF InBounds(x, y)
    THEN [bg EXCEPT !.back[y * MatrixW + x] = color]
    ELSE bg

fillScreen(bg, color) ==
    [bg EXCEPT !.back = [i \in PixelIdx |-> color]]

\* a swapBuffers that exchanges the planes without copying
swapBuffers_Exchange(bg) ==
    [back |-> bg.front, front |-> bg.back]

\* swapBuffers run to completion: the back plane's content becomes the
\* front plane's (SmartMatrix.h: memcpy(g_display_buffer, g_back_buffer, ...)).
swapBuffers(bg) ==
    [bg EXCEPT !.front = bg.back]

\* The layer's refresh callback (handleBufferSwap): with a swap pending
\* the two planes change roles.
frameRefreshCallback(bg, pending) ==
    IF pending THEN [back |-> bg.front, front |-> bg.back] ELSE bg

\* One element of the copy that ends swapBuffers: front plane to back plane.
memcpyStep(bg, i) ==
    [bg EXCEPT !.back[i] = bg.front[i]]

Row(plane, y) == [x \in 0 .. (MatrixW - 1) |-> plane[y * MatrixW + x]]

(***************************************************************************)
(* SMLayerIndexed: backBuffer is drawn into, indexBuffer is shown.  A layer *)
(* value is [back |-> plane, front |-> plane] of colour indices.            *)
(***************************************************************************)
Indices == {0, 1}
IndexPlanes == [PixelIdx -> Indices]
ZeroPlane == [i \in PixelIdx |-> 0]

Indexed_drawPixel(layer, x, y, index) ==
    IF InBounds(x, y)
    THEN [layer EXCEPT !.back[y * MatrixW + x] = index]
    ELSE layer

Indexed_fillScreen(layer, index) ==
    [layer EXCEPT !.back = [i \in PixelIdx |-> index]]

Indexed_swapBuffers(layer) ==
    [layer EXCEPT !.front = layer.back]

(***************************************************************************)
(* The SD volume.  A file name is a sequence of characters.  An entry of    *)
(* the /gifs/ directory is a regular file holding a byte stream, or a       *)
(* subdirectory.                                                            *)
(***************************************************************************)
\* A byte stream as stb_image sees it: its length, whether it decodes as a
\* GIF, and for a GIF the frame size and the frames (delay in 1/100 s and
\* RGBA pixels, row by row).
Opaque(rgb) == [rgb |-> rgb, a |-> 255]
Clear(rgb) == [rgb |-> rgb, a |-> 0]

GifOne ==
    [size |-> 4, gif |-> TRUE, w |-> 1, h |-> 1,
     frames |-> << [cs |-> 0, pix |-> << Opaque(COLOR_RED) >>] >>]

GifTwo ==
    [size |-> 6, gif |-> TRUE, w |-> 1, h |-> 2,
     frames |-> << [cs |-> 5,  pix |-> << Opaque(COLOR_RED), Clear(COLOR_RED) >>],
                   [cs |-> 20, pix |-> << Opaque(COLOR_BLACK), Opaque(COLOR_RED) >>] >>]

GifThree ==
    [size |-> 8, gif |-> TRUE, w |-> 2, h |-> 1,
     frames |-> << [cs |-> 45, pix |-> << Opaque(COLOR_RED), Opaque(COLOR_BLACK) >>],
                   [cs |-> 0,  pix |-> << Clear(COLOR_BLACK), Opaque(COLOR_RED) >>],
                   [cs |-> 7,  pix |-> << Opaque(COLOR_RED), Opaque(COLOR_RED) >>] >>]

Garbage == [size |-> 3, gif |-> FALSE, w |-> 0, h |-> 0, frames |-> << >>]
EmptyFile == [size |-> 0, gif |-> FALSE, w |-> 0, h |-> 0, frames |-> << >>]

Streams == {GifOne, GifTwo, GifThree, Garbage, EmptyFile}

\* File names of the model.
NameOne == <<"a", ".", "g", "i", "f">>
NameTwo == <<"b", ".", "G", "i", "f">>
NameThree == <<"c", ".", "g", "i", "f">>
NameBad == <<"x", ".", "g", "i", "f">>
NameEmpty == <<"e", ".", "g", "i", "f">>
NameHidden == <<"_", "h", ".", "g", "i", "f">>
NameText == <<"t", ".", "t", "x", "t">>
NameNone == << >>

\* readable: whether fopen on the entry can succeed at all.
FileEntry(name, data) ==
    [name |-> name, isDir |-> FALSE, data |-> data, readable |-> TRUE]
DirEntry(name) == [name |-> name, isDir |-> TRUE, data |-> EmptyFile, readable |-> TRUE]
LockedEntry(name) ==
    [name |-> name, isDir |-> FALSE, data |-> EmptyFile, readable |-> FALSE]

\* The volumes the model starts from: the entries of /gifs/ in readdir
\* order, or no /gifs/ directory at all.
VolumeFull ==
    [hasDir |-> TRUE,
     entries |-> << FileEntry(NameText, Garbage), FileEntry(NameTwo, GifTwo),
                    FileEntry(NameHidden, GifOne), FileEntry(NameBad, Garbage),
                    FileEntry(NameThree, GifThree) >>]
VolumeSingle ==
    [hasDir |-> TRUE, entries |-> << FileEntry(NameBad, Garbage) >>]
VolumeOne ==
    [hasDir |-> TRUE,
     entries |-> << FileEntry(NameOne, GifOne), FileEntry(NameEmpty, EmptyFile) >>]
VolumeNoGifs ==
    [hasDir |-> TRUE, entries |-> << FileEntry(NameText, Garbage) >>]
VolumeNoDir == [hasDir |-> FALSE, entries |-> << >>]
\* a directory with a file that cannot be opened between two animations
VolumeLocked ==
    [hasDir |-> TRUE,
     entries |-> << FileEntry(NameOne, GifOne), LockedEntry(NameText),
                    FileEntry(NameTwo, GifTwo) >>]

Volumes == {VolumeFull, VolumeSingle, VolumeOne, VolumeNoGifs, VolumeNoDir}

(***************************************************************************)
(* File (SD.h): _file is the entry's stream when fopen succeeded, pos the   *)
(* stdio position.  A File value is                                         *)
(*   [open |-> _file # nullptr, dir |-> _dir # nullptr, name, data, pos].   *)
(***************************************************************************)
ClosedFile ==
    [open |-> FALSE, dir |-> FALSE, name |-> NameNone, data |-> EmptyFile, pos |-> 0]

\* File(path): stat, then opendir or fopen; fopenOK is whether fopen succeeds.
File_ctor(entry, fopenOK) ==
    IF entry.isDir
    THEN [open |-> FALSE, dir |-> TRUE, name |-> entry.name, data |-> EmptyFile, pos |-> 0]
    ELSE [open |-> fopenOK /\ entry.readable, dir |-> FALSE, name |-> entry.name,
          data |-> entry.data, pos |-> 0]

\* the same with a missing path: stat fails and nothing is opened
File_missing == ClosedFile

File_bool(f) == f.open \/ f.dir

File_close(f) == [f EXCEPT !.open = FALSE, !.dir = FALSE]

File_size(f) == IF ~f.open THEN 0 ELSE f.data.size

\* read(buf, n): the bytes fread delivers; ioOK is FALSE when fread hits an error
File_readCount(f, n, ioOK) ==
    IF ~f.open \/ ~ioOK THEN 0
    ELSE IF f.pos >= f.data.size THEN 0
    ELSE IF n < f.data.size - f.pos THEN n ELSE f.data.size - f.pos

File_read(f, n, ioOK) ==
    [f EXCEPT !.pos = f.pos + File_readCount(f, n, ioOK)]

\* seek(pos): fseek(..., SEEK_SET) == 0; ioOK is FALSE when fseek fails
File_seekResult(f, p, ioOK) == f.open /\ ioOK

File_seek(f, p, ioOK) ==
    IF File_seekResult(f, p, ioOK) THEN [f EXCEPT !.pos = p] ELSE f

\* The stdio calls a File makes, as events: "fopen" by the constructor that
\* yielded f, "fclose" by close() on f.
File_opens(f) == IF f.open THEN << "fopen" >> ELSE << >>

File_closes(f) == IF f.open THEN << "fclose" >> ELSE << >>

\* a move assignment that takes the other File without closing its own
File_moveAssign_NoClose(target, other) ==
    [file |-> other, ev |-> << >>]

\* operator=(File&&): close(), then the other File's handles are taken
File_moveAssign(target, other) ==
    [file |-> other, ev |-> File_closes(target)]

\* position(): ftell
File_position(f) == IF ~f.open THEN 0 ELSE f.pos

\* read(): fgetc takes one byte unless the position is at or past the end;
\* the result is 0 for a byte, -1 for none
File_readByte(f) ==
    IF f.open /\ f.pos < f.data.size
    THEN [file |-> [f EXCEPT !.pos = f.pos + 1], ret |-> 0]
    ELSE [file |-> f, ret |-> -1]

(***************************************************************************)
(* GifDecoder<kMatrixWidth, kMatrixHeight, 12>.  frames is the decoded      *)
(* frame array (<< >> stands for nullptr), frameDelays the delays in ms.    *)
(***************************************************************************)
maxWidth == MatrixW
maxHeight == MatrixH

NewDecoder ==
    [frames |-> << >>, frameDelays |-> << >>, gifData |-> FALSE, gifDataSize |-> 0,
     frameWidth |-> 0, frameHeight |-> 0, frameCount |-> 0,
     currentFrame |-> 0, currentDelay |-> 100]

cleanup_KeepsFrames(dec) ==
    [dec EXCEPT !.gifData = FALSE]

cleanup(dec) ==
    [dec EXCEPT !.frames = << >>, !.frameDelays = << >>, !.gifData = FALSE]

\* stbi_load_gif_from_memory on len bytes of a stream: all frames at once,
\* each delay converted from 1/100 s to ms; nothing when it is no GIF.
stbi_load_gif_from_memory(data, len) ==
    IF data.gif /\ len = data.size
    THEN [ok |-> TRUE,
          frames |-> [k \in 1 .. Len(data.frames) |-> data.frames[k].pix],
          delays |-> [k \in 1 .. Len(data.frames) |-> 10 * data.frames[k].cs],
          x |-> data.w, y |-> data.h, z |-> Len(data.frames)]
    ELSE [ok |-> FALSE, frames |-> << >>, delays |-> << >>, x |-> 0, y |-> 0, z |-> 0]

\* startDecoding() over the file callbacks.  seekOK, readOK: whether fseek
\* and fread work at this call; the result of fileSeekCallback(0) is not
\* looked at.  Yields the decoder, the file, the return
\* value and what the callbacks reported.
startDecoding(dec, f, seekOK, readOK) ==
    LET d0 == cleanup(dec)
        size == File_size(f)
        d1 == [d0 EXCEPT !.gifDataSize = size]
        seekRet == File_seekResult(f, 0, seekOK)
        f1 == File_seek(f, 0, seekOK)
        bytesRead == File_readCount(f1, size, readOK)
        f2 == File_read(f1, size, readOK)
        img == stbi_load_gif_from_memory(f.data, bytesRead)
        report == [sizeRet |-> size, seekCalled |-> size > 0, seekRet |-> seekRet,
                   bytesRead |-> bytesRead, decodable |-> img.ok]
    IN  IF size <= 0
        THEN [dec |-> d1, file |-> f, ret |-> -1,
              report |-> [report EXCEPT !.seekRet = TRUE, !.bytesRead = 0,
                                        !.decodable = FALSE]]
        ELSE IF bytesRead # size
        THEN [dec |-> d1, file |-> f2, ret |-> -1,
              report |-> [report EXCEPT !.decodable = FALSE]]
        ELSE IF ~img.ok
        THEN [dec |-> d1, file |-> f2, ret |-> -1, report |-> report]
        ELSE [dec |-> [d1 EXCEPT !.gifData = TRUE,
                                 !.frames = img.frames,
                                 !.frameDelays = img.delays,
                                 !.frameWidth = img.x,
                                 !.frameHeight = img.y,
                                 !.frameCount = img.z,
                                 !.currentFrame = 0],
              file |-> f2, ret |-> 0, report |-> report]

\* (int) of the quotient a / b of the float division, b > 0
TruncDiv(a, b) == IF a >= 0 THEN a \div b ELSE -((-a) \div b)

\* scale = min(maxWidth / frameWidth, maxHeight / frameHeight, 1) as num/den
ScaleOf(fw, fh) ==
    LET sx == <<maxWidth, fw>>
        sy == <<maxHeight, fh>>
        s == IF sx[1] * sy[2] < sy[1] * sx[2] THEN sx ELSE sy
    IN  IF s[1] > s[2] THEN <<1, 1>> ELSE s

\* offsetX, offsetY: the integer division is on a non-negative value
CenterOffset_Zero(max, scaled) == 0

CenterOffset(max, scaled) == (max - scaled) \div 2

\* the alpha test of the draw loop
Visible_Never(a) == a > 255

Visible_Always(a) == TRUE

Visible(a) == a > 128

\* scale, scaledWidth and scaledHeight, offsetX and offsetY of the decoder's
\* frames on the surface
Placement(dec) ==
    LET sc == ScaleOf(dec.frameWidth, dec.frameHeight)
        scaledWidth == (dec.frameWidth * sc[1]) \div sc[2]
        scaledHeight == (dec.frameHeight * sc[1]) \div sc[2]
    IN  [sc |-> sc,
         offsetX |-> CenterOffset(maxWidth, scaledWidth),
         offsetY |-> CenterOffset(maxHeight, scaledHeight)]

\* srcX, srcY of destination pixel (x, y): whether they lie in the frame,
\* and then the place of that source pixel in the frame data
SourceOf(dec, x, y) ==
    LET p == Placement(dec)
        srcX == TruncDiv((x - p.offsetX) * p.sc[2], p.sc[1])
        srcY == TruncDiv((y - p.offsetY) * p.sc[2], p.sc[1])
    IN  [hit |-> /\ srcX >= 0 /\ srcX < dec.frameWidth
                 /\ srcY >= 0 /\ srcY < dec.frameHeight,
         idx |-> srcY * dec.frameWidth + srcX + 1]

\* The drawPixel calls of one frame, in the order of the loops (y outer, x
\* inner): <<x, y, rgb>> for each destination pixel whose source pixel lies
\* in the frame and passes the alpha test.
FrameDraws(dec) ==
    LET frameData == dec.frames[dec.currentFrame + 1]
        Draw(i) == LET x == i % maxWidth
                       y == i \div maxWidth
                       src == SourceOf(dec, x, y)
                   IN  IF src.hit /\ Visible(frameData[src.idx].a)
                       THEN << <<x, y, frameData[src.idx].rgb>> >>
                       ELSE << >>
        F[i \in 0 .. maxWidth * maxHeight] ==
            IF i = 0 THEN << >> ELSE F[i - 1] \o Draw(i - 1)
    IN  F[maxWidth * maxHeight]

\* The callbacks of one decoded frame, in call order.
FrameCallbacks_UpdateFirst(draws) ==
    << <<"clear">>, <<"update">> >> \o [k \in 1 .. Len(draws) |-> <<"draw">> \o draws[k]]

\* a frame drawn over what the back plane held
FrameCallbacks_NoClear(draws) ==
    [k \in 1 .. Len(draws) |-> <<"draw">> \o draws[k]] \o << <<"update">> >>

FrameCallbacks(draws) ==
    << <<"clear">> >> \o [k \in 1 .. Len(draws) |-> <<"draw">> \o draws[k]]
        \o << <<"update">> >>

RECURSIVE RunCallbacksFrom(_, _, _)
RunCallbacksFrom(layer, cbs, k) ==
    IF k > Len(cbs) THEN layer
    ELSE Bind(CASE cbs[k][1] = "clear" -> fillScreen(layer, COLOR_BLACK)
                [] cbs[k][1] = "draw" -> drawPixel(layer, cbs[k][2], cbs[k][3], cbs[k][4])
                [] cbs[k][1] = "update" -> swapBuffers(layer),
              LAMBDA next : RunCallbacksFrom(next, cbs, k + 1))

RunCallbacks(layer, cbs) == RunCallbacksFrom(layer, cbs, 1)

\* a decoder that reports the stream's delay as it is
DelayFloor_None(d) == d

\* currentDelay after a frame: the frame's delay in ms, 100 when below 10
DelayFloor(d) == IF d < 10 THEN 100 ELSE d

\* a frame index that runs on past the last frame
AdvanceFrame_NoWrap(cur, count) ==
    [currentFrame |-> cur + 1, ret |-> IF cur + 1 >= count THEN -1 ELSE 0]

\* the frame index after a frame, and the value decodeFrame returns
AdvanceFrame(cur, count) ==
    IF cur + 1 >= count THEN [currentFrame |-> 0, ret |-> -1]
    ELSE [currentFrame |-> cur + 1, ret |-> 0]

HasSession(dec) == dec.frames # << >> /\ dec.frameCount # 0

\* decodeFrame(false): yields the decoder, the layer, the return value and
\* the callbacks it made.
decodeFrame(dec, layer) ==
    IF ~HasSession(dec)
    THEN [dec |-> dec, layer |-> layer, ret |-> -1, cbs |-> << >>]
    ELSE LET delay == IF dec.frameDelays # << >> /\ dec.currentFrame < dec.frameCount
                      THEN DelayFloor(dec.frameDelays[dec.currentFrame + 1])
                      ELSE dec.currentDelay
             adv == AdvanceFrame(dec.currentFrame, dec.frameCount)
         IN  Bind(FrameCallbacks(FrameDraws(dec)),
                  LAMBDA cbs :
                     [dec |-> [dec EXCEPT !.currentDelay = delay,
                                          !.currentFrame = adv.currentFrame],
                      layer |-> RunCallbacks(layer, cbs),
                      ret |-> adv.ret,
                      cbs |-> cbs])

getFrameDelay_ms(dec) == dec.currentDelay

(***************************************************************************)
(* FilenameFunctions.cpp                                                    *)
(***************************************************************************)
LowerCase == <<"a", "b", "c", "d", "e", "f", "g", "h", "i", "j", "k", "l", "m",
               "n", "o", "p", "q", "r", "s", "t", "u", "v", "w", "x", "y", "z">>
UpperCase == <<"A", "B", "C", "D", "E", "F", "G", "H", "I", "J", "K", "L", "M",
               "N", "O", "P", "Q", "R", "S", "T", "U", "V", "W", "X", "Y", "Z">>

toupper(c) ==
    IF \E k \in 1 .. Len(LowerCase) : LowerCase[k] = c
    THEN UpperCase[CHOOSE k \in 1 .. Len(LowerCase) : LowerCase[k] = c]
    ELSE c

toUpperCase(str) == [k \in 1 .. Len(str) |-> toupper(str[k])]

endsWith(str, suffix) ==
    /\ Len(suffix) <= Len(str)
    /\ SubSeq(str, Len(str) - Len(suffix) + 1, Len(str)) = suffix

isAnimationFile(filename) ==
    LET first == IF Len(filename) = 0 THEN "" ELSE filename[1]
    IN  /\ first \notin {"_", "~", "."}
        /\ endsWith(toUpperCase(filename), <<".", "G", "I", "F">>)

\* The while loop of enumerateGIFFiles from entry number k on, n files
\* counted so far: it ends when openNextFile yields a File that is false,
\* at the end of the directory or at an entry that could not be opened.
RECURSIVE CountFrom(_, _, _)
CountFrom(entries, k, n) ==
    IF k > Len(entries) THEN n
    ELSE IF ~File_bool(File_ctor(entries[k], TRUE)) THEN n
    ELSE CountFrom(entries, k + 1,
                   IF isAnimationFile(entries[k].name) THEN n + 1 ELSE n)

\* enumerateGIFFiles: -1 without the directory, else numberOfFiles as the
\* loop leaves it.
enumerateGIFFiles(volume) ==
    IF ~volume.hasDir THEN -1 ELSE CountFrom(volume.entries, 1, 0)

\* a turn that counts every directory entry, animation file or not
WalkStep_CountsAll(p, e) ==
    LET a == File_moveAssign(p.file, File_ctor(e, TRUE))
        ev == p.ev \o File_opens(a.file) \o a.ev \o File_closes(a.file)
    IN  [index |-> p.index - 1, set |-> TRUE, name |-> e.name,
         file |-> File_close(a.file), ev |-> ev]

\* One turn of the while loop of getGIFFilenameByIndex on directory entry e.
WalkStep(p, e) ==
    LET a == File_moveAssign(p.file, File_ctor(e, TRUE))
        ev == p.ev \o File_opens(a.file) \o a.ev \o File_closes(a.file)
    IN  IF isAnimationFile(e.name)
        THEN [index |-> p.index - 1, set |-> TRUE, name |-> e.name,
              file |-> File_close(a.file), ev |-> ev]
        ELSE [p EXCEPT !.file = File_close(a.file), !.ev = ev]

\* The while loop from entry number k on: it ends when index drops below 0
\* or when openNextFile has no more entries (my_sd_file is then empty).
RECURSIVE Walk(_, _, _)
Walk(entries, k, p) ==
    IF p.index < 0 THEN p
    ELSE IF k > Len(entries)
    THEN [p EXCEPT !.file = File_close(File_moveAssign(p.file, ClosedFile).file),
                   !.ev = p.ev \o File_moveAssign(p.file, ClosedFile).ev]
    ELSE IF ~File_bool(File_ctor(entries[k], TRUE))
    THEN [p EXCEPT !.file = File_close(File_moveAssign(p.file,
                                                       File_ctor(entries[k], TRUE)).file),
                   !.ev = p.ev \o File_moveAssign(p.file, File_ctor(entries[k], TRUE)).ev]
    ELSE Bind(WalkStep(p, entries[k]), LAMBDA q : Walk(entries, k + 1, q))

\* getGIFFilenameByIndex: walks the directory through my_sd_file until the
\* entry number index (0-based) among the animation files is passed.  Yields
\* the pathname buffer (set is FALSE while it was never written) and
\* my_sd_file as the walk leaves it; ev are the fopen / fclose calls made.
getGIFFilenameByIndex(volume, nFiles, f, index) ==
    IF index < 0 \/ index >= nFiles \/ ~volume.hasDir
    THEN [index |-> index, set |-> FALSE, name |-> NameNone, file |-> f, ev |-> << >>]
    ELSE Walk(volume.entries, 1,
              [index |-> index, set |-> FALSE, name |-> NameNone, file |-> f,
               ev |-> << >>])

EntryNamed(volume, name) ==
    {k \in 1 .. Len(volume.entries) : volume.entries[k].name = name}

\* What SD.open can yield for a pathname buffer that was never written.
UninitOpens(volume) ==
    {File_missing} \cup {File_ctor(volume.entries[k], TRUE) : k \in 1 .. Len(volume.entries)}

\* SD.open(pathname) at the end of openGifFilenameByIndex, g being what
\* getGIFFilenameByIndex yielded
OpenPathname(volume, g, fopenOK, uninit) ==
    IF ~g.set THEN uninit
    ELSE IF EntryNamed(volume, g.name) = {} THEN File_missing
    ELSE File_ctor(volume.entries[CHOOSE k \in EntryNamed(volume, g.name) : TRUE],
                   fopenOK)

\* openGifFilenameByIndex: my_sd_file after the call and the fopen / fclose
\* calls made.  fopenOK: whether the final fopen works; uninit: the File
\* that a never-written pathname opens.
openGifFilenameByIndex(volume, nFiles, f, index, fopenOK, uninit) ==
    Bind(getGIFFilenameByIndex(volume, nFiles, f, index),
         LAMBDA g :
            Bind(File_moveAssign(File_close(g.file),
                                 OpenPathname(volume, g, fopenOK, uninit)),
                 LAMBDA a :
                    [file |-> a.file,
                     ev |-> g.ev \o File_closes(g.file) \o File_opens(a.file) \o a.ev]))

(***************************************************************************)
(* The sketch (Bonnaroo.cpp).  Its functions are operators on a world       *)
(* record w: the layer, the decoder, my_sd_file, the sketch's statics, the  *)
(* debug overlay and the calls made so far in the current handler (log).    *)
(***************************************************************************)
max_brightness == 180
BrightnessStep == 26
IRCooldown == 400
DebugHold == 3000
SetupDelay == 1000

ValidButtons ==
    {"VOL_DOWN", "PLAY", "VOL_UP", "SETUP", "UP", "STOP", "LEFT", "ENTER", "RIGHT",
     "0", "DOWN", "BACK", "1", "2", "3", "4", "5", "6", "7", "8", "9"}

\* Overlay texts: what writeDebugScreen was given.
Text(kind) == [kind |-> kind, n |-> 0, name |-> NameNone]
TextNum(kind, n) == [kind |-> kind, n |-> n, name |-> NameNone]
TextName(name) == [kind |-> "name", n |-> 0, name |-> name]
NoText == Text("")

Logged(w, ev) == [w EXCEPT !.log = Append(w.log, ev)]

\* a clearing that leaves the time of the last write in place
maybeClearDebugScreen_KeepsTime(w, now) ==
    IF ~w.allow_debug_clear THEN w
    ELSE IF ~(w.last_debug_write_time > 0 /\ now - w.last_debug_write_time > DebugHold)
    THEN w
    ELSE Logged([w EXCEPT !.overlay = NoText], <<"clearDebug">>)

maybeClearDebugScreen(w, now) ==
    IF ~w.allow_debug_clear THEN w
    ELSE IF ~(w.last_debug_write_time > 0 /\ now - w.last_debug_write_time > DebugHold)
    THEN w
    ELSE Logged([w EXCEPT !.overlay = NoText, !.last_debug_write_time = 0],
                <<"clearDebug">>)

writeDebugScreen(w, text, now) ==
    Logged([w EXCEPT !.allow_debug_clear = TRUE,
                     !.overlay = text,
                     !.last_debug_write_time = now],
           <<"writeDebug">>)

\* a validation that lets every raw code through
validatePressAndGetName_AcceptsAll(button) == TRUE

validatePressAndGetName(button) == button \in ValidButtons

\* a brightness that is multiplied into the stored pixels of both planes
adjustBrightness_Baked(w, amount) ==
    LET next_brightness == w.brightness + amount
        b == IF amount < 0
             THEN (IF next_brightness > 0 THEN next_brightness ELSE 0)
             ELSE (IF next_brightness < max_brightness THEN next_brightness
                   ELSE max_brightness)
        dim(plane) == [i \in PixelIdx |->
                         [c \in 1 .. 3 |-> (plane[i][c] * b) \div 255]]
    IN  [w EXCEPT !.brightness = b, !.matrixBrightness = b,
                  !.bg = [back |-> dim(w.bg.back), front |-> dim(w.bg.front)]]

\* a brightness that is neither capped nor floored
adjustBrightness_Unclamped(w, amount) ==
    [w EXCEPT !.brightness = w.brightness + amount,
              !.matrixBrightness = w.brightness + amount]

adjustBrightness(w, amount) ==
    LET next_brightness == w.brightness + amount
        b == IF amount < 0
             THEN (IF next_brightness > 0 THEN next_brightness ELSE 0)
             ELSE (IF next_brightness < max_brightness THEN next_brightness
                   ELSE max_brightness)
    IN  [w EXCEPT !.brightness = b, !.matrixBrightness = b]

change_image_idx_NoReload(w, amount) ==
    LET i == w.cur_image_idx + amount
        wrapped == IF i < 0 THEN w.num_files - 1
                   ELSE IF i >= w.num_files THEN 0 ELSE i
    IN  [w EXCEPT !.cur_image_idx = wrapped,
                  !.bg = swapBuffers(fillScreen(swapBuffers(fillScreen(w.bg, COLOR_BLACK)),
                                                COLOR_BLACK))]

\* an index that runs past either end
change_image_idx_NoWrap(w, amount) ==
    [w EXCEPT !.cur_image_idx = w.cur_image_idx + amount,
              !.bg = swapBuffers(fillScreen(swapBuffers(fillScreen(w.bg, COLOR_BLACK)),
                                            COLOR_BLACK)),
              !.is_first_frame = TRUE]

\* a selection change that leaves both planes as they are
change_image_idx_NoFill(w, amount) ==
    LET i == w.cur_image_idx + amount
        wrapped == IF i < 0 THEN w.num_files - 1
                   ELSE IF i >= w.num_files THEN 0 ELSE i
    IN  [w EXCEPT !.cur_image_idx = wrapped, !.is_first_frame = TRUE]

change_image_idx(w, amount) ==
    LET i == w.cur_image_idx + amount
        wrapped == IF i < 0 THEN w.num_files - 1
                   ELSE IF i >= w.num_files THEN 0 ELSE i
    IN  [w EXCEPT !.cur_image_idx = wrapped,
                  !.bg = swapBuffers(fillScreen(swapBuffers(fillScreen(w.bg, COLOR_BLACK)),
                                                COLOR_BLACK)),
                  !.is_first_frame = TRUE]

\* Bonnaroo.cpp:329
InCooldown_Inclusive(last, now) == last > 0 /\ now - last <= IRCooldown

InCooldown(last, now) == last > 0 /\ now - last < IRCooldown

\* HandleIRInputs.  ir: what IrReceiver.decode() yields at this call,
\* [has |-> FALSE] or [has |-> TRUE, code |-> button].  w.ir records how
\* the press ended: "none", "invalid", "cooldown" or "accepted".
HandleIRInputs(w, now, ir) ==
    LET w0 == Logged(w, <<"decode", ir.has>>)
    IN  IF ~ir.has THEN [w0 EXCEPT !.ir = "none"]
        ELSE IF ~validatePressAndGetName(ir.code)
        THEN Logged([w0 EXCEPT !.ir = "invalid"], <<"resume">>)
        ELSE IF InCooldown(w0.lastAcceptedIRTimestamp, now)
        THEN [w0 EXCEPT !.ir = "cooldown"]
        ELSE LET w1 == [w0 EXCEPT !.lastAcceptedIRTimestamp = now, !.ir = "accepted"]
                 w2 == CASE ir.code = "VOL_DOWN" ->
                              LET a == adjustBrightness(w1, -BrightnessStep)
                              IN  writeDebugScreen(a, TextNum("BRT: ", a.brightness), now)
                          [] ir.code = "VOL_UP" ->
                              LET a == adjustBrightness(w1, BrightnessStep)
                              IN  writeDebugScreen(a, TextNum("BRT: ", a.brightness), now)
                          [] ir.code = "LEFT" -> change_image_idx(w1, -1)
                          [] ir.code = "RIGHT" -> change_image_idx(w1, 1)
                          [] OTHER -> writeDebugScreen(w1, Text(ir.code), now)
             IN  Logged(w2, <<"resume">>)

\* Bonnaroo.cpp:470-474: a negative result of decodeFrame
AfterDecodeResult_KeepsStartOk(w, result) ==
    IF result < 0
    THEN [w EXCEPT !.lastFrameDisplayTime = 0, !.currentFrameDelay = 0]
    ELSE w

AfterDecodeResult(w, result) ==
    IF result < 0
    THEN [w EXCEPT !.lastFrameDisplayTime = 0, !.currentFrameDelay = 0,
                   !.start_ok = FALSE]
    ELSE w

\* drawImageWithSD, is_first_frame: the selected file is opened into f
OpenSelected(w, f, now) ==
    LET wo == Logged([w EXCEPT !.sdfile = f], <<"open", w.cur_image_idx>>)
        wd == IF ~File_bool(f)
              THEN writeDebugScreen(wo, Text("Fail"), now)
              ELSE writeDebugScreen(wo, TextName(f.name), now)
    IN  [wd EXCEPT !.lastFrameDisplayTime = 0,
                   !.currentFrameDelay = 0,
                   !.start_ok = TRUE]

\* drawImageWithSD: decodeFrame, with r what it yields
DecodeNext(w, r, now) ==
    AfterDecodeResult(Logged([w EXCEPT !.start_ok = TRUE,
                                       !.dec = r.dec,
                                       !.bg = r.layer,
                                       !.lastFrameDisplayTime = now,
                                       !.currentFrameDelay = getFrameDelay_ms(r.dec)],
                             <<"decodeFrame", r.ret>>),
                      r.ret)

\* a restart that leaves the first frame to the next tick
Restart_StartOnly(w, st, now) ==
    LET w2 == Logged([w EXCEPT !.bg = swapBuffers(fillScreen(w.bg, COLOR_BLACK)),
                               !.dec = st.dec,
                               !.sdfile = st.file],
                     <<"startDecoding", st.ret>>)
    IN  IF st.ret < 0
        THEN [w2 EXCEPT !.lastFrameDisplayTime = 0, !.start_ok = FALSE]
        ELSE [w2 EXCEPT !.start_ok = TRUE]

\* drawImageWithSD: the screen is blanked and startDecoding, yielding st, is called
Restart(w, st, now) ==
    LET w2 == Logged([w EXCEPT !.bg = swapBuffers(fillScreen(w.bg, COLOR_BLACK)),
                               !.dec = st.dec,
                               !.sdfile = st.file],
                     <<"startDecoding", st.ret>>)
    IN  IF st.ret < 0
        THEN [w2 EXCEPT !.lastFrameDisplayTime = 0, !.start_ok = FALSE]
        ELSE Bind(decodeFrame(st.dec, w2.bg), LAMBDA r : DecodeNext(w2, r, now))

\* a frame step that restarts the decoder only after a failure
ShowFrame_NoRestart(w, now, env) ==
    IF ~((now - w.lastFrameDisplayTime) > w.currentFrameDelay) THEN w
    ELSE IF ~w.start_ok
    THEN Bind(startDecoding(w.dec, w.sdfile, env.seekOK, env.readOK),
              LAMBDA st : Restart(w, st, now))
    ELSE Bind(decodeFrame(w.dec, w.bg), LAMBDA r : DecodeNext(w, r, now))

\* drawImageWithSD: the part after the file was opened
ShowFrame(w, now, env) ==
    IF ~((now - w.lastFrameDisplayTime) > w.currentFrameDelay) THEN w
    ELSE IF w.is_first_frame \/ ~w.start_ok
    THEN Bind(startDecoding(w.dec, w.sdfile, env.seekOK, env.readOK),
              LAMBDA st : Restart(w, st, now))
    ELSE Bind(decodeFrame(w.dec, w.bg), LAMBDA r : DecodeNext(w, r, now))

\* drawImageWithSD.  volume: the SD card; env: how the I/O calls of this
\* tick end, [fopenOK, uninit, seekOK, readOK].
drawImageWithSD(w, volume, now, env) ==
    IF w.is_first_frame
    THEN Bind(openGifFilenameByIndex(volume, w.numberOfFiles, w.sdfile, w.cur_image_idx,
                                     env.fopenOK, env.uninit).file,
              LAMBDA f : Bind(OpenSelected(w, f, now),
                              LAMBDA w1 : ShowFrame(w1, now, env)))
    ELSE ShowFrame(w, now, env)

\* loop() with use_sd = true
loop(w, volume, now, ir, env) ==
    Bind(maybeClearDebugScreen(w, now),
         LAMBDA w1 :
            Bind(HandleIRInputs(w1, now, ir),
                 LAMBDA w2 :
                    Bind(drawImageWithSD(w2, volume, now, env),
                         LAMBDA w3 : [w3 EXCEPT !.is_first_frame = FALSE])))

\* a setup() that reports an empty or missing directory and returns
setup_Returns(w, volume, now) ==
    LET w1 == [w EXCEPT !.matrixBrightness = w.brightness,
                        !.bg = swapBuffers(fillScreen(w.bg, COLOR_BLACK))]
        w2 == writeDebugScreen(w1, Text("POWER: ON"), now)
        n == enumerateGIFFiles(volume)
        w3 == [w2 EXCEPT !.num_files = n,
                         !.numberOfFiles = IF n < 0 THEN 0 ELSE n]
    IN  IF n < 0
        THEN writeDebugScreen(w3, Text("No gifs directory"), now)
        ELSE IF n = 0
        THEN writeDebugScreen(w3, Text("Empty gifs directory"), now)
        ELSE writeDebugScreen(w3, TextNum("Found ", n), now)

\* setup(): w.halted tells whether it ended in one of its while(1) loops.
setup(w, volume, now) ==
    LET w1 == [w EXCEPT !.matrixBrightness = w.brightness,
                        !.bg = swapBuffers(fillScreen(w.bg, COLOR_BLACK))]
        w2 == writeDebugScreen(w1, Text("POWER: ON"), now)
        n == enumerateGIFFiles(volume)
        w3 == [w2 EXCEPT !.num_files = n,
                         !.numberOfFiles = IF n < 0 THEN 0 ELSE n]
    IN  IF n < 0
        THEN [writeDebugScreen(w3, Text("No gifs directory"), now) EXCEPT !.halted = TRUE]
        ELSE IF n = 0
        THEN [writeDebugScreen(w3, Text("Empty gifs directory"), now)
                 EXCEPT !.halted = TRUE]
        ELSE writeDebugScreen(w3, TextNum("Found ", n), now)

\* The sketch's statics as the program starts.
InitSketch ==
    [brightness |-> 26, matrixBrightness |-> 255, num_files |-> 0,
     numberOfFiles |-> 0, cur_image_idx |-> 0, is_first_frame |-> TRUE,
     lastAcceptedIRTimestamp |-> 0, last_debug_write_time |-> 0,
     allow_debug_clear |-> TRUE, overlay |-> NoText,
     lastFrameDisplayTime |-> 0, currentFrameDelay |-> 0, start_ok |-> TRUE,
     halted |-> FALSE]

(***************************************************************************)
(* State.                                                                   *)
(***************************************************************************)
VARIABLES
    bg,          \* the background layer's two planes
    dec,         \* the GifDecoder object
    sdfile,      \* my_sd_file
    sk,          \* the sketch's statics and the debug overlay
    volume,      \* the SD card
    pc,          \* Arduino thread: "boot", "loop", or "halted" in setup
    clock,       \* millis() at the last handler
    apc,         \* Arduino thread: "idle", or "wait" / "copy" inside swapBuffers
    copyIdx,     \* next element the memcpy of swapBuffers copies
    swapPending, \* the layer's flag: a swap is requested and not yet done
    rpc,         \* render thread: "idle", "rows" (inside updateSimulator)
    rowY,        \* next row updateSimulator reads
    rowsRead,    \* what this pass read from the background layer, row by row
    passDone,    \* the last render step completed a pass (SDL_RenderPresent)
    lastPub,     \* history: content of the newest publish that took effect
    oldAtStart,  \* history: the front plane before the current pass's refresh callback
    newAtStart,  \* history: the front plane after it
    swapsInPass, \* history: swapBuffers calls overlapping the current pass (capped at 2)
    call,        \* history: the last decoder call, its result and its callbacks
    fresh,       \* history: a new decoder given the calls since the last successful start
    nSince,      \* history: decodeFrame calls since the last successful start (capped)
    hist,        \* history: the last loop() tick
    published,   \* history: some swapBuffers call has taken effect
    il,          \* the indexed layer's two planes
    op,          \* history: the last call made on a layer or on a File
    screen,      \* what the current pass drew on the SDL window, row by row
    running,     \* g_running
    mainpc,      \* main thread: "loop" (render loop), "join", "exited"
    events       \* the SDL event queue, and whether a window close was posted

vars == <<bg, dec, sdfile, sk, volume, pc, clock, apc, copyIdx, swapPending, rpc, rowY,
          rowsRead, passDone, lastPub, oldAtStart, newAtStart, swapsInPass, call, fresh,
          nSince, hist, published, il, op, screen,
          running, mainpc, events>>

refreshVars == <<apc, copyIdx, swapPending, rpc, rowY, rowsRead, passDone, lastPub,
                 oldAtStart, newAtStart, swapsInPass, published>>
apiVars == <<il, op>>
decoderHist == <<call, fresh, nSince>>
playerVars == <<dec, sdfile, sk, volume, pc, clock, hist>>
quitVars == <<running, mainpc, events>>
simVars == <<screen, running, mainpc, events>>

NoRows == [y \in {} |-> BlackPlane]

\* An empty SDL event queue.
NoEvents == [queue |-> << >>, quitPosted |-> FALSE]

\* Nothing drawn yet.  stale: setBrightness was called since the pass began.
NoScreen == [rows |-> NoRows, stale |-> FALSE]

\* updateSimulator: one channel of a pixel at the matrix brightness
ApplyBrightness(chan, brightness) == (chan * brightness) \div 255

\* updateSimulator: row y of the window, drawn from the row buffer
DrawRow(scr, y, rowBuffer, brightness) ==
    [scr EXCEPT !.rows =
        [r \in 0 .. y |->
            IF r = y
            THEN [x \in DOMAIN rowBuffer |->
                    [c \in 1 .. 3 |-> ApplyBrightness(rowBuffer[x][c], brightness)]]
            ELSE scr.rows[r]]]

NoReport ==
    [sizeRet |-> 0, seekCalled |-> FALSE, seekRet |-> TRUE, bytesRead |-> 0,
     decodable |-> FALSE]

NoCall ==
    [op |-> "none", ret |-> 0, cbs |-> << >>, report |-> NoReport,
     preBg |-> [back |-> BlackPlane, front |-> BlackPlane], preDec |-> NewDecoder,
     data |-> EmptyFile, lastStart |-> "never", stream |-> EmptyFile,
     ev |-> << >>, preOpen |-> FALSE]

\* What HandleIRInputs may change besides its timestamp.
IRView(w) ==
    [brightness |-> w.brightness, matrixBrightness |-> w.matrixBrightness,
     cur_image_idx |-> w.cur_image_idx, overlay |-> w.overlay,
     last_debug_write_time |-> w.last_debug_write_time]

NoHist ==
    [ir |-> "none", code |-> "", now |-> 0, log |-> << >>,
     irPre |-> IRView(InitSketch), irPost |-> IRView(InitSketch),
     preLast |-> 0, preIdx |-> 0, preBad |-> FALSE, bad |-> FALSE,
     prePending |-> FALSE, pending |-> FALSE, swallowed |-> FALSE, ioOK |-> TRUE,
     pubTime |-> -1, pubDelay |-> 0, prePubTime |-> -1, prePubDelay |-> 0,
     irBg |-> [back |-> BlackPlane, front |-> BlackPlane], preLit |-> FALSE,
     msgTime |-> -1, msgGone |-> FALSE, preMsgTime |-> -1, preMsgGone |-> FALSE]

\* No call on a layer or on a File was made yet.
NoOp ==
    [obj |-> "none", name |-> "none", x |-> 0, y |-> 0, ret |-> 0,
     preBg |-> [back |-> BlackPlane, front |-> BlackPlane],
     preIl |-> [back |-> ZeroPlane, front |-> ZeroPlane],
     preFile |-> ClosedFile, last |-> "none", prev |-> "none", n |-> 0,
     str |-> NameNone, set |-> FALSE]

InitObjects ==
    /\ bg = [back |-> BlackPlane, front |-> BlackPlane]
    /\ dec = NewDecoder
    /\ sdfile = ClosedFile
    /\ clock = 0
    /\ apc = "idle"
    /\ copyIdx = 0
    /\ swapPending = FALSE
    /\ rpc = "idle"
    /\ rowY = 0
    /\ rowsRead = NoRows
    /\ passDone = FALSE
    /\ lastPub = BlackPlane
    /\ oldAtStart = BlackPlane
    /\ newAtStart = BlackPlane
    /\ swapsInPass = 0
    /\ call = NoCall
    /\ fresh = NewDecoder
    /\ nSince = 0
    /\ hist = NoHist
    /\ published = FALSE
    /\ il = [back |-> ZeroPlane, front |-> ZeroPlane]
    /\ screen = NoScreen
    /\ running = TRUE
    /\ mainpc = "loop"
    /\ events = NoEvents

(***************************************************************************)
(* The Arduino thread's callbacks, run against a concurrent refresh.  The   *)
(* background layer that updateSimulator reads is the library layer the     *)
(* shim allocates: swapBuffers raises swapPending and waits, the refresh    *)
(* callback at the start of a pass exchanges the planes and lowers it, and  *)
(* swapBuffers then copies the new front plane into the back plane.         *)
(***************************************************************************)
InitRefresh ==
    /\ InitObjects
    /\ op = NoOp
    /\ sk = InitSketch
    /\ volume = VolumeFull
    /\ pc = "loop"

\* screenClearCallback
ScreenClear ==
    /\ pc = "loop"
    /\ apc = "idle"
    /\ bg' = fillScreen(bg, COLOR_BLACK)
    /\ passDone' = FALSE
    /\ UNCHANGED <<apc, copyIdx, swapPending, rpc, rowY, rowsRead, lastPub,
                   oldAtStart, newAtStart, swapsInPass>>
    /\ UNCHANGED <<playerVars, decoderHist, apiVars, published>>
    /\ UNCHANGED simVars

\* drawPixelCallback
DrawPixel ==
    /\ pc = "loop"
    /\ apc = "idle"
    /\ \E x \in -1 .. MatrixW, y \in -1 .. MatrixH, c \in Palette :
          bg' = drawPixel(bg, x, y, c)
    /\ passDone' = FALSE
    /\ UNCHANGED <<apc, copyIdx, swapPending, rpc, rowY, rowsRead, lastPub,
                   oldAtStart, newAtStart, swapsInPass>>
    /\ UNCHANGED <<playerVars, decoderHist, apiVars, published>>
    /\ UNCHANGED simVars

\* updateScreenCallback: swapBuffers raises swapPending and waits
SwapBegin ==
    /\ pc = "loop"
    /\ apc = "idle"
    /\ ~swapPending
    /\ apc' = "wait"
    /\ swapPending' = TRUE
    /\ copyIdx' = 0
    /\ swapsInPass' = IF rpc = "rows" /\ swapsInPass < 2
                      THEN swapsInPass + 1 ELSE swapsInPass
    /\ passDone' = FALSE
    /\ UNCHANGED <<bg, rpc, rowY, rowsRead, lastPub, oldAtStart, newAtStart>>
    /\ UNCHANGED <<playerVars, decoderHist, apiVars, published>>
    /\ UNCHANGED simVars

\* swapBuffers, once swapPending is lowered: the copy of one element of the
\* front plane into the back plane; after the last one swapBuffers returns
SwapCopy ==
    /\ apc \in {"wait", "copy"}
    /\ ~swapPending
    /\ bg' = memcpyStep(bg, copyIdx)
    /\ copyIdx' = copyIdx + 1
    /\ apc' = IF copyIdx + 1 = NPixels THEN "idle" ELSE "copy"
    /\ passDone' = FALSE
    /\ UNCHANGED <<swapPending, rpc, rowY, rowsRead, lastPub, oldAtStart, newAtStart,
                   swapsInPass>>
    /\ UNCHANGED <<playerVars, decoderHist, apiVars, published>>
    /\ UNCHANGED simVars

(***************************************************************************)
(* The render thread: one updateSimulator pass.                             *)
(***************************************************************************)
\* a pass that starts only while the Arduino thread is outside swapBuffers
RenderBegin_WhenIdle ==
    /\ apc = "idle"
    /\ mainpc = "loop"
    /\ rpc = "idle"
    /\ rpc' = "rows"
    /\ rowY' = 0
    /\ rowsRead' = NoRows
    /\ screen' = NoScreen
    /\ UNCHANGED quitVars
    /\ passDone' = FALSE
    /\ UNCHANGED <<bg, swapPending, oldAtStart, newAtStart, lastPub, swapsInPass,
                   published, apc, copyIdx>>
    /\ UNCHANGED <<playerVars, decoderHist, apiVars>>

\* a pass that reads the rows without running the refresh callbacks
RenderBegin_NoCallback ==
    /\ mainpc = "loop"
    /\ rpc = "idle"
    /\ rpc' = "rows"
    /\ rowY' = 0
    /\ rowsRead' = NoRows
    /\ screen' = NoScreen
    /\ UNCHANGED quitVars
    /\ passDone' = FALSE
    /\ oldAtStart' = bg.front
    /\ newAtStart' = bg.front
    /\ swapsInPass' = IF swapPending THEN 1 ELSE 0
    /\ UNCHANGED <<bg, swapPending, lastPub, published, apc, copyIdx>>
    /\ UNCHANGED <<playerVars, decoderHist, apiVars>>

\* frameRefreshCallback on every layer, before the rows
RenderBegin ==
    /\ mainpc = "loop"
    /\ rpc = "idle"
    /\ rpc' = "rows"
    /\ rowY' = 0
    /\ rowsRead' = NoRows
    /\ screen' = NoScreen
    /\ UNCHANGED quitVars
    /\ passDone' = FALSE
    /\ bg' = frameRefreshCallback(bg, swapPending)
    /\ swapPending' = FALSE
    /\ oldAtStart' = bg.front
    /\ newAtStart' = frameRefreshCallback(bg, swapPending).front
    /\ lastPub' = IF swapPending THEN bg.back ELSE lastPub
    /\ swapsInPass' = IF swapPending THEN 1 ELSE 0
    /\ UNCHANGED <<apc, copyIdx>>
    /\ published' = (published \/ swapPending)
    /\ UNCHANGED <<playerVars, decoderHist, apiVars>>

\* a pass that runs the refresh callback again before each row
RenderRow_CallbackPerRow ==
    /\ rpc = "rows"
    /\ rowY < MatrixH
    /\ bg' = frameRefreshCallback(bg, swapPending)
    /\ swapPending' = FALSE
    /\ rowsRead' = [y \in 0 .. rowY |->
                      IF y = rowY
                      THEN Row(frameRefreshCallback(bg, swapPending).front, rowY)
                      ELSE rowsRead[y]]
    /\ screen' = DrawRow(screen, rowY,
                         Row(frameRefreshCallback(bg, swapPending).front, rowY),
                         sk.matrixBrightness)
    /\ UNCHANGED quitVars
    /\ rowY' = rowY + 1
    /\ passDone' = FALSE
    /\ UNCHANGED <<apc, copyIdx, rpc, lastPub, oldAtStart, newAtStart, swapsInPass>>
    /\ published' = (published \/ swapPending)
    /\ UNCHANGED <<playerVars, decoderHist, apiVars>>

\* fillRefreshRow(y, rowBuffer) for one row, then that row is drawn
RenderRow ==
    /\ rpc = "rows"
    /\ rowY < MatrixH
    /\ rowsRead' = [y \in 0 .. rowY |->
                      IF y = rowY THEN Row(bg.front, rowY) ELSE rowsRead[y]]
    /\ screen' = DrawRow(screen, rowY, Row(bg.front, rowY), sk.matrixBrightness)
    /\ UNCHANGED quitVars
    /\ rowY' = rowY + 1
    /\ passDone' = FALSE
    /\ UNCHANGED <<bg, apc, copyIdx, swapPending, rpc, lastPub, oldAtStart, newAtStart,
                   swapsInPass>>
    /\ UNCHANGED <<playerVars, decoderHist, apiVars, published>>

\* SDL_RenderPresent: the pass is complete
RenderPresent ==
    /\ rpc = "rows"
    /\ rowY = MatrixH
    /\ rpc' = "idle"
    /\ passDone' = TRUE
    /\ UNCHANGED <<bg, apc, copyIdx, swapPending, rowY, rowsRead, lastPub,
                   oldAtStart, newAtStart, swapsInPass>>
    /\ UNCHANGED <<playerVars, decoderHist, apiVars, published>>
    /\ UNCHANGED <<screen, running, events>>
    /\ mainpc' = IF running THEN "loop" ELSE "join"

NextRefresh ==
    \/ ScreenClear
    \/ DrawPixel
    \/ SwapBegin
    \/ SwapCopy
    \/ RenderBegin
    \/ RenderRow
    \/ RenderPresent

SpecRefresh == InitRefresh /\ [][NextRefresh]_vars

(***************************************************************************)
(* Claims about the planes under a concurrent refresh.                      *)
(***************************************************************************)
\* The background content the completed pass put on screen.
ShownPlane == [i \in PixelIdx |-> rowsRead[i \div MatrixW][i % MatrixW]]

C2_FrontOnlyInSwap ==
    /\ [][bg'.front # bg.front => apc = "wait"]_vars
    /\ [](passDone => ShownPlane = lastPub)

\* A pass completed between two publishes while the next frame was being
\* written: the back plane already differs from the published frame.
C2_Witness ==
    /\ passDone
    /\ apc = "idle"
    /\ lastPub # BlackPlane
    /\ bg.back # lastPub
    /\ ShownPlane = lastPub

\* The render loop runs on the main thread whatever the Arduino thread
\* does: a pass that can take a step takes it.
SpecRefreshFair ==
    /\ SpecRefresh
    /\ WF_vars(RenderBegin)
    /\ WF_vars(RenderRow)
    /\ WF_vars(RenderPresent)

\* C20: the render thread never waits for the Arduino thread: its next
\* step is enabled in every state, wherever the Arduino thread stands, so
\* every pass that began completes; a completed pass shows the front plane
\* as it is then; and until a swapBuffers call has taken effect the front
\* plane, and so what a pass shows, is all black.
C20_RenderNeverWaits ==
    /\ [](ENABLED (RenderBegin \/ RenderRow \/ RenderPresent))
    /\ (rpc = "rows") ~> passDone
    /\ [](passDone => ShownPlane = bg.front)
    /\ [](~published => bg.front = BlackPlane)

\* A pass completed and showed black while the Arduino thread, having drawn
\* on the back plane, waits inside its first swapBuffers call.
C20_Witness ==
    /\ passDone
    /\ ~published
    /\ apc = "wait"
    /\ swapPending
    /\ bg.back # BlackPlane
    /\ ShownPlane = BlackPlane

\* The render loop keeps running, and the Arduino thread, once swapBuffers
\* can go on, goes on.
SpecPublishFair ==
    /\ SpecRefreshFair
    /\ WF_vars(SwapCopy)

\* C29: a swapBuffers call that waits for the refresh returns: from every
\* state in which the Arduino thread is inside swapBuffers, waiting or
\* copying, it comes to stand outside it again.
C29_SwapBuffersReturns ==
    /\ (apc = "wait") ~> (apc = "idle")
    /\ (apc = "copy") ~> (apc = "idle")

\* A swapBuffers call has returned: what was drawn is on the front plane
\* and copied back, and the Arduino thread is outside swapBuffers.
C29_Witness ==
    /\ apc = "idle"
    /\ published
    /\ ~swapPending
    /\ copyIdx = NPixels
    /\ bg.front # BlackPlane
    /\ bg.back = bg.front

(***************************************************************************)
(* The decoder driven call by call: my_sd_file is opened on an entry of     *)
(* the volume, startDecoding and decodeFrame are called in any order.       *)
(***************************************************************************)
MaxCalls == 5

DecoderVolumes == {VolumeFull, VolumeOne, VolumeSingle}

InitDecoder ==
    /\ InitObjects
    /\ op = NoOp
    /\ volume \in DecoderVolumes
    /\ sk = [InitSketch EXCEPT !.num_files = enumerateGIFFiles(volume),
                               !.numberOfFiles = enumerateGIFFiles(volume)]
    /\ pc = "loop"

\* openGifFilenameByIndex("/gifs/", index)
DecOpen ==
    /\ \E index \in 0 .. (sk.numberOfFiles - 1), fopenOK \in BOOLEAN :
          \E r \in {openGifFilenameByIndex(volume, sk.numberOfFiles, sdfile, index,
                                           fopenOK, File_missing)} :
              /\ sdfile' = r.file
              /\ call' = [NoCall EXCEPT !.op = "open", !.lastStart = call.lastStart,
                                        !.stream = call.stream, !.ev = r.ev,
                                        !.preOpen = sdfile.open]
    /\ UNCHANGED <<bg, dec, sk, volume, pc, clock, hist, fresh, nSince>>
    /\ UNCHANGED <<refreshVars, apiVars>>
    /\ UNCHANGED simVars

\* decoder.startDecoding()
DecStart ==
    /\ \E seekOK \in BOOLEAN, readOK \in BOOLEAN :
          \E r \in {startDecoding(dec, sdfile, seekOK, readOK)} :
              /\ dec' = r.dec
              /\ sdfile' = r.file
              /\ call' = [op |-> "startDecoding", ret |-> r.ret, cbs |-> << >>,
                          report |-> r.report, preBg |-> bg, preDec |-> dec,
                          data |-> sdfile.data,
                          lastStart |-> IF r.ret < 0 THEN "failed" ELSE "ok",
                          stream |-> IF r.ret < 0 THEN EmptyFile ELSE sdfile.data,
                          ev |-> << >>, preOpen |-> sdfile.open]
              /\ fresh' = IF r.ret < 0 THEN fresh
                          ELSE startDecoding(NewDecoder, sdfile, seekOK, readOK).dec
              /\ nSince' = IF r.ret < 0 THEN nSince ELSE 0
    /\ UNCHANGED <<bg, sk, volume, pc, clock, hist>>
    /\ UNCHANGED <<refreshVars, apiVars>>
    /\ UNCHANGED simVars

\* decoder.decodeFrame(false)
DecFrame ==
    /\ \E r \in {decodeFrame(dec, bg)} :
           /\ dec' = r.dec
           /\ bg' = r.layer
           /\ call' = [op |-> "decodeFrame", ret |-> r.ret, cbs |-> r.cbs,
                       report |-> NoReport, preBg |-> bg, preDec |-> dec,
                       data |-> sdfile.data, lastStart |-> call.lastStart,
                       stream |-> call.stream, ev |-> << >>,
                       preOpen |-> sdfile.open]
    /\ fresh' = decodeFrame(fresh, bg).dec
    /\ nSince' = IF nSince < MaxCalls THEN nSince + 1 ELSE nSince
    /\ UNCHANGED <<sdfile, sk, volume, pc, clock, hist>>
    /\ UNCHANGED <<refreshVars, apiVars>>
    /\ UNCHANGED simVars

NextDecoder ==
    \/ DecOpen
    \/ DecStart
    \/ DecFrame

SpecDecoder == InitDecoder /\ [][NextDecoder]_vars

(***************************************************************************)
(* Claims about the decoder.                                                *)
(***************************************************************************)
\* C3: after a successful startDecoding on a GIF of N >= 1 frames, each of
\* the first N decodeFrame calls returns a non-negative value and call
\* number N + 1 returns the negative end-of-animation value.
C3_FirstNSucceed ==
    (call.op = "decodeFrame" /\ call.lastStart = "ok" /\ nSince < MaxCalls) =>
        LET N == call.preDec.frameCount
        IN  /\ N >= 1
            /\ nSince <= N => call.ret >= 0
            /\ nSince = N + 1 => call.ret < 0

\* C4: a decodeFrame call on an active session makes its callbacks in the
\* order clear, then the drawPixel calls, then exactly one update; so the
\* screen is never cleared or published in the middle of the drawing, and
\* the published plane holds everything the call drew.
C4_ClearDrawUpdate ==
    (call.op = "decodeFrame" /\ HasSession(call.preDec)) =>
        LET c == call.cbs
            n == Len(c)
        IN  /\ n >= 2
            /\ c[1] = <<"clear">>
            /\ c[n] = <<"update">>
            /\ \A k \in 2 .. (n - 1) : c[k][1] = "draw"
            /\ bg.front = bg.back

\* A frame with at least one drawn pixel has been decoded and published.
C4_Witness ==
    /\ call.op = "decodeFrame"
    /\ HasSession(call.preDec)
    /\ Len(call.cbs) >= 3
    /\ bg.front # BlackPlane
    /\ bg.front # call.preBg.front

\* C5: decodeFrame called while startDecoding was never called, or after its
\* last call failed, returns a negative value, makes no callback and leaves
\* both planes as they were.
C5_NoSessionNoEffect ==
    (call.op = "decodeFrame" /\ call.lastStart \in {"never", "failed"}) =>
        /\ call.ret < 0
        /\ call.cbs = << >>
        /\ bg = call.preBg

\* decodeFrame was called after a failed startDecoding that followed an
\* earlier session which had drawn on the planes.
C5_Witness ==
    /\ call.op = "decodeFrame"
    /\ call.lastStart = "failed"
    /\ call.preDec.frameCount > 0
    /\ call.ret < 0
    /\ bg.front # BlackPlane

\* C6: startDecoding returns a negative value and leaves no session
\* whenever the size callback reports a size <= 0, the seek callback
\* reports failure, the block read delivers fewer bytes than the size, or
\* the bytes are no GIF.
C6_StartFails ==
    (/\ call.op = "startDecoding"
     /\ \/ call.report.sizeRet <= 0
        \/ call.report.seekCalled /\ ~call.report.seekRet
        \/ call.report.sizeRet > 0 /\ call.report.bytesRead < call.report.sizeRet
        \/ ~call.data.gif)
    => (call.ret < 0 /\ ~HasSession(dec))

\* C7: after a successful startDecoding the decoder stands at frame 0 of
\* the new stream, and from then on its frame index and the frame delay it
\* reports equal those of a decoder that never had an earlier session.
C7_SessionReset ==
    (call.lastStart = "ok" /\ call.op \in {"startDecoding", "decodeFrame"}) =>
        /\ call.op = "startDecoding" =>
              /\ dec.currentFrame = 0
              /\ dec.frames = [k \in 1 .. Len(call.data.frames) |->
                                  call.data.frames[k].pix]
        /\ dec.currentFrame = fresh.currentFrame
        /\ getFrameDelay_ms(dec) = getFrameDelay_ms(fresh)

\* The positions of the drawPixel calls among a frame's callbacks.
DrawsOf(cbs) == {k \in 1 .. Len(cbs) : cbs[k][1] = "draw"}

\* The last call was decodeFrame on an active session.
FrameDecoded == call.op = "decodeFrame" /\ HasSession(call.preDec)

\* The frame that call drew from.
FrameShown == call.preDec.frames[call.preDec.currentFrame + 1]

\* C13: a frame no larger than the surface is not scaled: every drawPixel
\* of decodeFrame lies in the frameWidth x frameHeight rectangle at offset
\* ((maxWidth - frameWidth) div 2, (maxHeight - frameHeight) div 2) and
\* carries the colour of source pixel (x - offsetX, y - offsetY).
C13_NoUpscaleCentered ==
    (/\ FrameDecoded
     /\ call.preDec.frameWidth <= maxWidth
     /\ call.preDec.frameHeight <= maxHeight)
    => LET fw == call.preDec.frameWidth
           fh == call.preDec.frameHeight
           offX == (maxWidth - fw) \div 2
           offY == (maxHeight - fh) \div 2
       IN  \A k \in DrawsOf(call.cbs) :
              LET x == call.cbs[k][2]
                  y == call.cbs[k][3]
              IN  /\ x >= offX /\ x < offX + fw
                  /\ y >= offY /\ y < offY + fh
                  /\ call.cbs[k][4] = FrameShown[(y - offY) * fw + (x - offX) + 1].rgb

\* A frame lower than the surface was drawn, below the surface's first row.
C13_Witness ==
    /\ FrameDecoded
    /\ call.preDec.frameWidth <= maxWidth
    /\ call.preDec.frameHeight < maxHeight
    /\ (maxHeight - call.preDec.frameHeight) \div 2 > 0
    /\ DrawsOf(call.cbs) # {}
    /\ \A k \in DrawsOf(call.cbs) : call.cbs[k][3] > 0

\* C14: a frame larger than the surface is scaled by
\* s = min(maxWidth / frameWidth, maxHeight / frameHeight): every drawPixel
\* of decodeFrame lies in the rectangle of floor(frameWidth * s) x
\* floor(frameHeight * s) pixels at offset ((maxWidth - scaledWidth) div 2,
\* (maxHeight - scaledHeight) div 2).
C14_DownscaledInRect ==
    (/\ FrameDecoded
     /\ (call.preDec.frameWidth > maxWidth \/ call.preDec.frameHeight > maxHeight))
    => LET fw == call.preDec.frameWidth
           fh == call.preDec.frameHeight
           byWidth == maxWidth * fh <= maxHeight * fw
           num == IF byWidth THEN maxWidth ELSE maxHeight
           den == IF byWidth THEN fw ELSE fh
           scaledWidth == (fw * num) \div den
           scaledHeight == (fh * num) \div den
           offX == (maxWidth - scaledWidth) \div 2
           offY == (maxHeight - scaledHeight) \div 2
       IN  \A k \in DrawsOf(call.cbs) :
              /\ call.cbs[k][2] >= offX /\ call.cbs[k][2] < offX + scaledWidth
              /\ call.cbs[k][3] >= offY /\ call.cbs[k][3] < offY + scaledHeight

\* The last call decoded the only frame of a 1 x 1 GIF whose pixel is
\* (255, 0, 0).
OnePixelGifDecoded ==
    /\ FrameDecoded
    /\ call.preDec.frameWidth = 1
    /\ call.preDec.frameHeight = 1
    /\ call.preDec.frameCount = 1
    /\ FrameShown = << Opaque(COLOR_RED) >>

\* C15 (as stated): decoding a 1 x 1, one-frame GIF whose pixel is
\* (255, 0, 0) makes exactly one drawPixel call, drawPixel(0, 0, 255, 0, 0).
C15_DrawsAtOrigin ==
    OnePixelGifDecoded =>
        /\ Cardinality(DrawsOf(call.cbs)) = 1
        /\ \A k \in DrawsOf(call.cbs) :
              /\ call.cbs[k][2] = 0
              /\ call.cbs[k][3] = 0
              /\ call.cbs[k][4] = <<255, 0, 0>>

\* C15 (amended): decoding a 1 x 1, one-frame GIF whose pixel is
\* (255, 0, 0) makes exactly one drawPixel call, with colour (255, 0, 0) at
\* the centred position ((maxWidth - 1) div 2, (maxHeight - 1) div 2).
C15_DrawsAtCentre ==
    OnePixelGifDecoded =>
        /\ Cardinality(DrawsOf(call.cbs)) = 1
        /\ \A k \in DrawsOf(call.cbs) :
              /\ call.cbs[k][2] = (maxWidth - 1) \div 2
              /\ call.cbs[k][3] = (maxHeight - 1) \div 2
              /\ call.cbs[k][4] = <<255, 0, 0>>

\* The 1 x 1 GIF was decoded on a surface whose centre is not (0, 0).
C15_Witness ==
    /\ OnePixelGifDecoded
    /\ (maxHeight - 1) \div 2 > 0
    /\ Len(call.cbs) = 3
    /\ call.cbs[2][3] = (maxHeight - 1) \div 2

\* C16: after decodeFrame decoded a frame, getFrameDelay_ms() is ten times
\* the frame's delay in hundredths of a second, or 100 when that delay is
\* 0; it is never 0.
C16_DelayReported ==
    FrameDecoded =>
        LET cs == call.stream.frames[call.preDec.currentFrame + 1].cs
        IN  /\ getFrameDelay_ms(dec) = (IF cs = 0 THEN 100 ELSE 10 * cs)
            /\ getFrameDelay_ms(dec) # 0

\* A frame whose delay in the stream is 0 was decoded after a frame with
\* another delay.
C16_Witness ==
    /\ FrameDecoded
    /\ call.stream.frames[call.preDec.currentFrame + 1].cs = 0
    /\ getFrameDelay_ms(call.preDec) # 100
    /\ getFrameDelay_ms(dec) = 100

LiveAfter(ev, n, init) ==
    init + Cardinality({k \in 1 .. n : ev[k] = "fopen"})
         - Cardinality({k \in 1 .. n : ev[k] = "fclose"})

MaxNow == 2200

TickSteps == {399, 400}

NoPress == [has |-> FALSE, code |-> ""]
Press(code) == [has |-> TRUE, code |-> code]
\* "QUIT" stands for a raw code that is none of the remote's buttons.
IRInputs == {NoPress} \cup {Press(c) : c \in {"VOL_DOWN", "VOL_UP", "LEFT", "RIGHT",
                                               "PLAY", "QUIT"}}

IOWorks == [fopenOK |-> TRUE, uninit |-> File_missing, seekOK |-> TRUE, readOK |-> TRUE]
Envs == {IOWorks, [IOWorks EXCEPT !.fopenOK = FALSE], [IOWorks EXCEPT !.seekOK = FALSE],
         [IOWorks EXCEPT !.readOK = FALSE]}

World == sk @@ [bg |-> bg, dec |-> dec, sdfile |-> sdfile, log |-> << >>, ir |-> "none"]

\* History of decodeFrame results over a tick's calls: pending says that the
\* last decodeFrame returned a negative value and neither startDecoding nor
\* writeDebugScreen was called since; swallowed that decodeFrame was called
\* again in that situation.
ScanStep(h, ev) ==
    CASE ev[1] = "decodeFrame" ->
           [pending |-> ev[2] < 0, swallowed |-> h.swallowed \/ h.pending]
      [] ev[1] \in {"startDecoding", "writeDebug"} -> [h EXCEPT !.pending = FALSE]
      [] OTHER -> h

RECURSIVE ScanFrom(_, _, _)
ScanFrom(h, log, k) ==
    IF k > Len(log) THEN h
    ELSE Bind(ScanStep(h, log[k]), LAMBDA h2 : ScanFrom(h2, log, k + 1))

ScanResults(h, log) == ScanFrom(h, log, 1)

\* Whether the last startDecoding so far failed.
LastStartFailed(b, log) ==
    LET starts == {k \in 1 .. Len(log) : log[k][1] = "startDecoding"}
    IN  IF starts = {} THEN b
        ELSE log[CHOOSE k \in starts : \A j \in starts : j <= k][2] < 0

\* The newest debug message after the calls of log made at time now: the
\* time of the newest writeDebugScreen call (-1: none yet), and whether
\* maybeClearDebugScreen has cleared the overlay since.
MessageAfter(h, log, now) ==
    LET writes == {k \in 1 .. Len(log) : log[k][1] = "writeDebug"}
        clears == {k \in 1 .. Len(log) : log[k][1] = "clearDebug"}
    IN  IF writes = {}
        THEN [msgTime |-> h.msgTime, msgGone |-> h.msgGone \/ clears # {}]
        ELSE [msgTime |-> now,
              msgGone |-> \E c \in clears : \A k \in writes : k < c]

InitPlayer ==
    /\ InitObjects
    /\ op = NoOp
    /\ volume \in Volumes
    /\ sk = InitSketch
    /\ pc = "boot"

\* setup(); millis() is past its delay(1000)
Setup ==
    /\ pc = "boot"
    /\ \E w \in {setup(World, volume, SetupDelay)} :
           /\ bg' = w.bg
           /\ dec' = w.dec
           /\ sdfile' = w.sdfile
           /\ sk' = [k \in DOMAIN sk |-> w[k]]
           /\ pc' = IF w.halted THEN "halted" ELSE "loop"
          /\ hist' = [hist EXCEPT
                         !.msgTime = MessageAfter(hist, w.log, SetupDelay).msgTime,
                         !.msgGone = MessageAfter(hist, w.log, SetupDelay).msgGone]
    /\ clock' = SetupDelay
    /\ UNCHANGED volume
    /\ UNCHANGED <<refreshVars, decoderHist, apiVars>>
    /\ UNCHANGED simVars

\* Whether a tick's calls include a decodeFrame, which publishes a frame.
Publishes(log) == \E k \in 1 .. Len(log) : log[k][1] = "decodeFrame"

\* loop() called at time now with ir decoded and the I/O ending as env says;
\* hist records the call, and the time and delay of the newest frame
\* published before it (prePub) and after it (pub); irBg is the layer when
\* HandleIRInputs returned, preLit says that the front plane showed an image
\* when loop() was called.
TickAt(now, ir, env) ==
    \E w \in {loop(World, volume, now, ir, env)},
       w1 \in {maybeClearDebugScreen(World, now)} :
       LET w2 == HandleIRInputs(w1, now, ir)
           sc == ScanResults([pending |-> hist.pending, swallowed |-> FALSE],
                             w.log)
       IN  /\ clock' = now
           /\ bg' = w.bg
           /\ dec' = w.dec
           /\ sdfile' = w.sdfile
           /\ sk' = [k \in DOMAIN sk |-> w[k]]
           /\ hist' = [ir |-> w2.ir, code |-> ir.code, now |-> now,
                       log |-> w.log,
                       irPre |-> IRView(w1), irPost |-> IRView(w2),
                       preLast |-> sk.lastAcceptedIRTimestamp,
                       preIdx |-> sk.cur_image_idx,
                       preBad |-> hist.bad,
                       bad |-> LastStartFailed(hist.bad, w.log),
                       prePending |-> hist.pending,
                       pending |-> sc.pending,
                       swallowed |-> sc.swallowed,
                       ioOK |-> (env = IOWorks),
                       pubTime |-> IF Publishes(w.log) THEN now ELSE hist.pubTime,
                       pubDelay |-> IF Publishes(w.log) THEN getFrameDelay_ms(w.dec)
                                    ELSE hist.pubDelay,
                       prePubTime |-> hist.pubTime,
                       prePubDelay |-> hist.pubDelay,
                       irBg |-> w2.bg,
                       preLit |-> (bg.front # BlackPlane),
                       msgTime |-> MessageAfter(hist, w.log, now).msgTime,
                       msgGone |-> MessageAfter(hist, w.log, now).msgGone,
                       preMsgTime |-> hist.msgTime,
                       preMsgGone |-> hist.msgGone]

\* one call of loop()
Tick ==
    /\ pc = "loop"
    /\ \E dt \in TickSteps, ir \in IRInputs, env \in Envs :
          /\ clock + dt <= MaxNow
          /\ TickAt(clock + dt, ir, env)
    /\ UNCHANGED <<volume, pc>>
    /\ UNCHANGED <<refreshVars, decoderHist, apiVars>>
    /\ UNCHANGED simVars

NextPlayer ==
    \/ Setup
    \/ Tick

SpecPlayer == InitPlayer /\ [][NextPlayer]_vars

(***************************************************************************)
(* Claims about the player.                                                 *)
(***************************************************************************)
\* Position of the first event of the given kind in a log, 0 when absent.
FirstOf(log, kind) ==
    IF \E k \in 1 .. Len(log) : log[k][1] = kind
    THEN CHOOSE k \in 1 .. Len(log) :
            /\ log[k][1] = kind
            /\ \A j \in 1 .. (k - 1) : log[j][1] # kind
    ELSE 0

\* C8: in the playback loop no negative result of decodeFrame is swallowed:
\* after each one, startDecoding is called or a message is written to the
\* debug overlay before decodeFrame is called again.
C8_NegativeResultHandled == ~hist.swallowed

\* A tick that began with a negative result outstanding restarted the
\* decoder and then decoded a frame.
C8_Witness ==
    /\ hist.prePending
    /\ FirstOf(hist.log, "startDecoding") > 0
    /\ FirstOf(hist.log, "decodeFrame") > FirstOf(hist.log, "startDecoding")
    /\ ~hist.swallowed

\* The index change_image_idx(amount) must arrive at.
WrappedIdx(idx, code) ==
    IF code = "RIGHT"
    THEN (IF idx + 1 >= sk.num_files THEN 0 ELSE idx + 1)
    ELSE (IF idx - 1 < 0 THEN sk.num_files - 1 ELSE idx - 1)

\* The tick opened the file at the index the press leads to and then
\* called startDecoding.
OpenedAndStarted ==
    /\ sk.cur_image_idx = WrappedIdx(hist.preIdx, hist.code)
    /\ FirstOf(hist.log, "open") > 0
    /\ hist.log[FirstOf(hist.log, "open")] = <<"open", sk.cur_image_idx>>
    /\ FirstOf(hist.log, "startDecoding") > FirstOf(hist.log, "open")

\* C9 (as stated): while the selected file could not be opened or its
\* startDecoding failed, every tick still handles IR input and the player
\* stays in loop(), and an accepted LEFT or RIGHT opens and starts another
\* file than the one that failed.
C9_RecoversWithAnotherFile ==
    (pc = "loop" /\ hist.preBad) =>
        /\ hist.log # << >>
        /\ hist.log[1][1] = "decode"
        /\ (hist.ir = "accepted" /\ hist.code \in {"LEFT", "RIGHT"}) =>
              /\ OpenedAndStarted
              /\ sk.cur_image_idx # hist.preIdx

\* C9 (amended): while the selected file could not be opened or its
\* startDecoding failed, every tick still handles IR input and the player
\* stays in loop(), and an accepted LEFT or RIGHT opens the file at the
\* wrapped new index and calls startDecoding on it in the same tick; that
\* file is another one when the directory holds at least two animation
\* files.
C9_RecoversAtNewIndex ==
    (pc = "loop" /\ hist.preBad) =>
        /\ hist.log # << >>
        /\ hist.log[1][1] = "decode"
        /\ (hist.ir = "accepted" /\ hist.code \in {"LEFT", "RIGHT"}) =>
              /\ OpenedAndStarted
              /\ sk.num_files >= 2 => sk.cur_image_idx # hist.preIdx

\* After a file that failed, an accepted LEFT or RIGHT moved to another
\* file, which now plays.
C9_Witness ==
    /\ pc = "loop"
    /\ hist.preBad
    /\ hist.ir = "accepted"
    /\ hist.code \in {"LEFT", "RIGHT"}
    /\ sk.cur_image_idx # hist.preIdx
    /\ ~hist.bad
    /\ FirstOf(hist.log, "decodeFrame") > 0

\* C10: a valid press decoded at time now, when the last accepted press was
\* at time t1 > 0, is rejected without any change of brightness, image index
\* or overlay if now - t1 < 400, and accepted if now - t1 >= 400.
C10_Debounce ==
    (hist.code \in ValidButtons /\ hist.preLast > 0) =>
        /\ hist.now - hist.preLast < 400 =>
              /\ hist.ir = "cooldown"
              /\ hist.irPost = hist.irPre
              /\ sk.lastAcceptedIRTimestamp = hist.preLast
        /\ hist.now - hist.preLast >= 400 =>
              /\ hist.ir = "accepted"
              /\ sk.lastAcceptedIRTimestamp = hist.now

\* A valid press 399 ms after an accepted one was rejected.
C10_Witness ==
    /\ hist.code \in ValidButtons
    /\ hist.preLast > 0
    /\ hist.now - hist.preLast = 399
    /\ hist.ir = "cooldown"

(***************************************************************************)
(* The layer objects driven call by call.  A behaviour drives one of them,  *)
(* the background layer or the indexed layer, with coordinates from one     *)
(* pixel outside the canvas on each side.  op records the last call, the    *)
(* layers before it, the name of the call before it, and the number of      *)
(* calls made, which MaxOps bounds.                                         *)
(***************************************************************************)
MaxOps == 4

InitLayers ==
    /\ InitObjects
    /\ sk = InitSketch
    /\ volume = VolumeFull
    /\ pc = "loop"
    /\ op \in {[NoOp EXCEPT !.obj = "bg"], [NoOp EXCEPT !.obj = "il"]}

LayerCall(name, x, y) ==
    [op EXCEPT !.name = name, !.x = x, !.y = y, !.preBg = bg, !.preIl = il,
               !.prev = op.last, !.last = name, !.n = op.n + 1]

\* backgroundLayer.drawPixel(x, y, color)
LayerDrawPixel ==
    /\ op.obj = "bg"
    /\ op.n < MaxOps
    /\ \E x \in -1 .. MatrixW, y \in -1 .. MatrixH, c \in Palette :
          /\ bg' = drawPixel(bg, x, y, c)
          /\ op' = LayerCall("drawPixel", x, y)
    /\ UNCHANGED <<il, playerVars, refreshVars, decoderHist>>
    /\ UNCHANGED simVars

\* backgroundLayer.fillScreen(color)
LayerFillScreen ==
    /\ op.obj = "bg"
    /\ op.n < MaxOps
    /\ \E c \in Palette : bg' = fillScreen(bg, c)
    /\ op' = LayerCall("fillScreen", 0, 0)
    /\ UNCHANGED <<il, playerVars, refreshVars, decoderHist>>
    /\ UNCHANGED simVars

\* backgroundLayer.swapBuffers()
LayerSwapBuffers ==
    /\ op.obj = "bg"
    /\ op.n < MaxOps
    /\ bg' = swapBuffers(bg)
    /\ op' = LayerCall("swapBuffers", 0, 0)
    /\ UNCHANGED <<il, playerVars, refreshVars, decoderHist>>
    /\ UNCHANGED simVars

\* indexedLayer.drawPixel(x, y, index)
IndexedDrawPixel ==
    /\ op.obj = "il"
    /\ op.n < MaxOps
    /\ \E x \in -1 .. MatrixW, y \in -1 .. MatrixH, i \in Indices :
          /\ il' = Indexed_drawPixel(il, x, y, i)
          /\ op' = LayerCall("drawPixel", x, y)
    /\ UNCHANGED <<bg, playerVars, refreshVars, decoderHist>>
    /\ UNCHANGED simVars

\* indexedLayer.fillScreen(index)
IndexedFillScreen ==
    /\ op.obj = "il"
    /\ op.n < MaxOps
    /\ \E i \in Indices : il' = Indexed_fillScreen(il, i)
    /\ op' = LayerCall("fillScreen", 0, 0)
    /\ UNCHANGED <<bg, playerVars, refreshVars, decoderHist>>
    /\ UNCHANGED simVars

\* indexedLayer.swapBuffers()
IndexedSwapBuffers ==
    /\ op.obj = "il"
    /\ op.n < MaxOps
    /\ il' = Indexed_swapBuffers(il)
    /\ op' = LayerCall("swapBuffers", 0, 0)
    /\ UNCHANGED <<bg, playerVars, refreshVars, decoderHist>>
    /\ UNCHANGED simVars

NextLayers ==
    \/ LayerDrawPixel
    \/ LayerFillScreen
    \/ LayerSwapBuffers
    \/ IndexedDrawPixel
    \/ IndexedFillScreen
    \/ IndexedSwapBuffers

SpecLayers == InitLayers /\ [][NextLayers]_vars

(***************************************************************************)
(* Claims about the layers.                                                 *)
(***************************************************************************)
\* C11: drawPixel with x or y outside the canvas (negative, or >= width or
\* height) changes no pixel of any plane, on the background layer and on the
\* indexed layer alike; in particular no in-bounds pixel next to it changes.
C11_OutOfBoundsNoOp ==
    (/\ op.name = "drawPixel"
     /\ (op.x < 0 \/ op.x >= MatrixW \/ op.y < 0 \/ op.y >= MatrixH))
    => (bg = op.preBg /\ il = op.preIl)

\* drawPixel(-1, 1, ...) was called on a background layer whose pixel
\* (MatrixW - 1, 0), the one before (0, 1) in memory, differs from the others.
C11_Witness ==
    /\ op.obj = "bg"
    /\ op.n < MaxOps
    /\ op.name = "drawPixel"
    /\ op.x = -1
    /\ op.y = 1
    /\ bg.back[MatrixW - 1] = COLOR_RED
    /\ bg.back[MatrixW] = COLOR_BLACK

\* C12: a swapBuffers call that directly follows another swapBuffers call,
\* with no drawPixel or fillScreen in between, leaves the front plane as the
\* first call left it.
C12_PublishIdempotent ==
    (op.obj = "bg" /\ op.name = "swapBuffers" /\ op.prev = "swapBuffers")
    => bg.front = op.preBg.front

\* swapBuffers was called twice in a row on a drawn-on back plane.
C12_Witness ==
    /\ op.obj = "bg"
    /\ op.n < MaxOps
    /\ op.name = "swapBuffers"
    /\ op.prev = "swapBuffers"
    /\ bg.front # BlackPlane

(***************************************************************************)
(* my_sd_file driven through the file callbacks: SD.open on an entry of     *)
(* /gifs/, then seek, read, size and position calls in any order.  seek is  *)
(* given positions up to one past the size.                                 *)
(***************************************************************************)
InitFile ==
    /\ InitObjects
    /\ sk = InitSketch
    /\ volume \in {VolumeFull, VolumeOne}
    /\ pc = "loop"
    /\ op = [NoOp EXCEPT !.obj = "file"]

FileCall(name, x, ret) ==
    [op EXCEPT !.name = name, !.x = x, !.ret = ret, !.preFile = sdfile,
               !.prev = op.last, !.last = name]

\* my_sd_file = SD.open(path)
FileOpen ==
    /\ \E k \in 1 .. Len(volume.entries), fopenOK \in BOOLEAN :
          sdfile' = File_ctor(volume.entries[k], fopenOK)
    /\ op' = FileCall("open", 0, 0)
    /\ UNCHANGED <<bg, dec, sk, volume, pc, clock, hist, il, refreshVars, decoderHist>>
    /\ UNCHANGED simVars

\* fileSeekCallback(position)
FileSeekCallback ==
    /\ \E p \in 0 .. (File_size(sdfile) + 1), ioOK \in BOOLEAN :
          /\ sdfile' = File_seek(sdfile, p, ioOK)
          /\ op' = FileCall("seek", p, IF File_seekResult(sdfile, p, ioOK) THEN 1 ELSE 0)
    /\ UNCHANGED <<bg, dec, sk, volume, pc, clock, hist, il, refreshVars, decoderHist>>
    /\ UNCHANGED simVars

\* filePositionCallback()
FilePositionCallback ==
    /\ op' = FileCall("position", 0, File_position(sdfile))
    /\ UNCHANGED <<bg, dec, sdfile, sk, volume, pc, clock, hist, il, refreshVars,
                   decoderHist>>
    /\ UNCHANGED simVars

\* fileReadCallback()
FileReadCallback ==
    /\ sdfile' = File_readByte(sdfile).file
    /\ op' = FileCall("read", 1, File_readByte(sdfile).ret)
    /\ UNCHANGED <<bg, dec, sk, volume, pc, clock, hist, il, refreshVars, decoderHist>>
    /\ UNCHANGED simVars

\* fileReadBlockCallback(buffer, numberOfBytes)
FileReadBlockCallback ==
    /\ \E n \in 1 .. 3, ioOK \in BOOLEAN :
          /\ sdfile' = File_read(sdfile, n, ioOK)
          /\ op' = FileCall("readBlock", n, File_readCount(sdfile, n, ioOK))
    /\ UNCHANGED <<bg, dec, sk, volume, pc, clock, hist, il, refreshVars, decoderHist>>
    /\ UNCHANGED simVars

\* fileSizeCallback()
FileSizeCallback ==
    /\ op' = FileCall("size", 0, File_size(sdfile))
    /\ UNCHANGED <<bg, dec, sdfile, sk, volume, pc, clock, hist, il, refreshVars,
                   decoderHist>>
    /\ UNCHANGED simVars

NextFile ==
    \/ FileOpen
    \/ FileSeekCallback
    \/ FilePositionCallback
    \/ FileReadCallback
    \/ FileReadBlockCallback
    \/ FileSizeCallback

SpecFile == InitFile /\ [][NextFile]_vars

(***************************************************************************)
(* Claims about the stream handle.                                          *)
(***************************************************************************)
\* C18: on an open stream 0 <= position <= size holds after any sequence of
\* seek, read and size calls, and seek(p) returns false whenever p > size.
C18_PositionWithinSize ==
    sdfile.open =>
        /\ File_position(sdfile) >= 0
        /\ File_position(sdfile) <= File_size(sdfile)
        /\ (op.name = "seek" /\ op.x > File_size(op.preFile)) => op.ret = 0


\* C25: the decoder reads the stream as it goes: after a successful
\* startDecoding on a GIF of several frames the stream is not yet read to
\* its end, and it is still not after a decodeFrame that has frames of the
\* animation left to decode.
C25_PullsOnDemand ==
    /\ call.op = "startDecoding" /\ call.ret = 0 /\ dec.frameCount > 1
          => File_position(sdfile) < File_size(sdfile)
    /\ call.op = "decodeFrame" /\ call.ret = 0 /\ call.lastStart = "ok"
          /\ dec.frameCount > 1 /\ dec.currentFrame # 0
          => File_position(sdfile) < File_size(sdfile)

\* C22: when enumerateGIFFiles yields 0 or -1, setup() never returns: the
\* Arduino thread stays halted in setup, loop() has not run, my_sd_file was
\* never opened, the decoder was never started, and num_files holds the
\* result of the one enumeration.
C22_SetupHalts ==
    /\ [](pc # "boot" /\ enumerateGIFFiles(volume) <= 0
            => /\ pc = "halted"
               /\ hist = [NoHist EXCEPT !.msgTime = SetupDelay]
               /\ sdfile = ClosedFile
               /\ dec = NewDecoder
               /\ call = NoCall
               /\ sk.num_files = enumerateGIFFiles(volume)
               /\ clock = SetupDelay)
    /\ [][pc = "halted" => pc' = "halted"]_vars

\* setup() has run on a volume whose directory holds no animation file.
C22_Witness ==
    /\ pc = "halted"
    /\ volume = VolumeNoGifs
    /\ sk.num_files = 0
    /\ sk.overlay = Text("Empty gifs directory")

(***************************************************************************)
(* Brightness under a concurrent refresh: the Arduino thread draws and      *)
(* publishes as before and also handles volume presses, each one cooldown   *)
(* after the one before.                                                    *)
(***************************************************************************)
InitBrightness ==
    /\ InitObjects
    /\ op = NoOp
    /\ sk = [InitSketch EXCEPT !.matrixBrightness = InitSketch.brightness]
    /\ volume = VolumeFull
    /\ pc = "loop"

\* millis() up to which presses arrive
MaxPressTime == 800

\* HandleIRInputs with a VOL- or VOL+ press decoded
VolumePress ==
    /\ apc = "idle"
    /\ clock + IRCooldown <= MaxPressTime
    /\ \E code \in {"VOL_DOWN", "VOL_UP"} :
          \E w \in {HandleIRInputs(World, clock + IRCooldown, Press(code))} :
             /\ bg' = w.bg
             /\ dec' = w.dec
             /\ sdfile' = w.sdfile
             /\ sk' = [k \in DOMAIN sk |-> w[k]]
    /\ clock' = clock + IRCooldown
    /\ screen' = [screen EXCEPT !.stale = TRUE]
    /\ UNCHANGED quitVars
    /\ passDone' = FALSE
    /\ UNCHANGED <<apc, copyIdx, swapPending, rpc, rowY, rowsRead, lastPub,
                   oldAtStart, newAtStart, swapsInPass, published>>
    /\ UNCHANGED <<volume, pc, hist, decoderHist, apiVars>>

NextBrightness ==
    \/ NextRefresh
    \/ VolumePress

SpecBrightness == InitBrightness /\ [][NextBrightness]_vars

\* The front plane as the window would show it at the given brightness.
AtBrightness(plane, brightness) ==
    [y \in 0 .. (MatrixH - 1) |->
        [x \in 0 .. (MatrixW - 1) |->
            [c \in 1 .. 3 |-> ApplyBrightness(plane[y * MatrixW + x][c], brightness)]]]

\* C21: a brightness change leaves the stored pixels of both planes and the
\* decoder untouched, and a pass that completes with no brightness change
\* since it began shows the front plane at the brightness set last.
C21_BrightnessAtOutput ==
    /\ [][sk'.matrixBrightness # sk.matrixBrightness
            => bg' = bg /\ dec' = dec /\ call' = call]_vars
    /\ [](passDone /\ ~screen.stale
            => screen.rows = AtBrightness(bg.front, sk.matrixBrightness))

\* After a VOL+ press a pass showed the published red frame dimmed to the
\* new brightness while the planes still hold full red.
C21_Witness ==
    /\ passDone
    /\ ~screen.stale
    /\ sk.matrixBrightness = InitSketch.brightness + BrightnessStep
    /\ bg.front = [i \in PixelIdx |-> COLOR_RED]
    /\ screen.rows[0][0] = <<InitSketch.brightness + BrightnessStep, 0, 0>>
    /\ call = NoCall


(***************************************************************************)
(* The directory functions called one by one on a volume: isAnimationFile   *)
(* on a name, enumerateGIFFiles, and openGifFilenameByIndex with the        *)
(* numberOfFiles the last enumeration left.  op holds the last call: its    *)
(* argument (str or x), its result (ret), and for an open the pathname      *)
(* buffer (str, set) and whether SD.open could succeed (y).                 *)
(***************************************************************************)
ProbeNames ==
    {NameOne, NameTwo, NameThree, NameHidden, NameText, NameNone,
     <<".", "g", "i", "f">>, <<"~", "a", ".", "g", "i", "f">>,
     <<".", "a", ".", "G", "I", "F">>, <<"a", ".", "G", "I", "F">>,
     <<"a", "_", ".", "g", "I", "f">>, <<"g", "i", "f">>, <<"a", "g", "i", "f">>,
     <<"a", ".", "g", "i", "f", "x">>, <<"a", ".", "g", "i">>,
     <<"a", ".", "g", "i", "f", ".", "t", "x", "t">>}

DirVolumes == Volumes \cup {VolumeLocked}

InitDirectory ==
    /\ InitObjects
    /\ sk = InitSketch
    /\ volume \in DirVolumes
    /\ pc = "loop"
    /\ op = [NoOp EXCEPT !.obj = "dir"]

DirCall(name, x, ret) ==
    [op EXCEPT !.name = name, !.x = x, !.ret = ret, !.preFile = sdfile,
               !.prev = op.last, !.last = name]

\* isAnimationFile(name)
DirIsAnimationFile ==
    /\ \E nm \in ProbeNames :
          op' = [DirCall("isAnimationFile", 0, IF isAnimationFile(nm) THEN 1 ELSE 0)
                    EXCEPT !.str = nm]
    /\ UNCHANGED <<bg, dec, sdfile, sk, volume, pc, clock, hist, il, refreshVars,
                   decoderHist, simVars>>

\* num_files = enumerateGIFFiles(GIF_DIRECTORY, true)
DirEnumerate ==
    /\ \E n \in {enumerateGIFFiles(volume)} :
          /\ sk' = [sk EXCEPT !.num_files = n,
                              !.numberOfFiles = IF n < 0 THEN 0 ELSE n]
          /\ op' = [DirCall("enumerate", 0, n) EXCEPT !.n = 1]
    /\ UNCHANGED <<bg, dec, sdfile, volume, pc, clock, hist, il, refreshVars,
                   decoderHist, simVars>>

\* openGifFilenameByIndex(GIF_DIRECTORY, index), after an enumeration
DirOpenByIndex ==
    /\ op.n = 1
    /\ \E i \in -1 .. sk.numberOfFiles, fopenOK \in BOOLEAN,
          uninit \in UninitOpens(volume) :
          \E g \in {getGIFFilenameByIndex(volume, sk.numberOfFiles, sdfile, i)},
             r \in {openGifFilenameByIndex(volume, sk.numberOfFiles, sdfile, i,
                                           fopenOK, uninit)} :
             /\ sdfile' = r.file
             /\ op' = [DirCall("openByIndex", i, IF File_bool(r.file) THEN 1 ELSE 0)
                          EXCEPT !.str = g.name, !.set = g.set,
                                 !.y = IF fopenOK THEN 1 ELSE 0]
    /\ UNCHANGED <<bg, dec, sk, volume, pc, clock, hist, il, refreshVars,
                   decoderHist, simVars>>

NextDirectory ==
    \/ DirIsAnimationFile
    \/ DirEnumerate
    \/ DirOpenByIndex

SpecDirectory == InitDirectory /\ [][NextDirectory]_vars

\* Two characters that are equal up to the case of a letter.
SameLetter(a, b) ==
    a = b \/ \E k \in 1 .. Len(LowerCase) : {a, b} = {LowerCase[k], UpperCase[k]}

\* A name that does not begin with '_', '~' or '.' and ends with ".gif" in
\* any mix of cases.
AnimationName(nm) ==
    /\ ~(Len(nm) >= 1 /\ nm[1] \in {"_", "~", "."})
    /\ Len(nm) >= 4
    /\ \A j \in 1 .. 4 : SameLetter(nm[Len(nm) - 4 + j], <<".", "g", "i", "f">>[j])

\* The directory entries with such a name, by their place in the directory.
AnimationEntries(vol) ==
    {k \in 1 .. Len(vol.entries) : AnimationName(vol.entries[k].name)}

\* C23: isAnimationFile(name) is true exactly for the names that do not
\* begin with '_', '~' or '.' and end with ".gif" in any case, and
\* enumerateGIFFiles returns the number of directory entries with such a
\* name.
C23_FilterAndCount ==
    /\ op.name = "isAnimationFile" => (op.ret = 1 <=> AnimationName(op.str))
    /\ op.name = "enumerate" /\ volume.hasDir
          => op.ret = Cardinality(AnimationEntries(volume))


\* The place in the directory of animation entry number i (0-based).
NthAnimation(vol, i) ==
    CHOOSE k \in AnimationEntries(vol) :
        Cardinality({j \in AnimationEntries(vol) : j < k}) = i

\* C24: for an index from 0 up to numberOfFiles - 1 the pathname written by
\* getGIFFilenameByIndex names the directory entry that is number index
\* among the entries passing isAnimationFile, in directory order, and when
\* SD.open succeeds my_sd_file is that entry, open at its start.
C24_SelectsNthAnimation ==
    op.name = "openByIndex" /\ 0 <= op.x /\ op.x < sk.numberOfFiles
        => /\ Cardinality(AnimationEntries(volume)) > op.x
           /\ op.set
           /\ op.str = volume.entries[NthAnimation(volume, op.x)].name
           /\ op.y = 1
                 => /\ op.ret = 1
                    /\ sdfile = File_ctor(volume.entries[NthAnimation(volume, op.x)],
                                          TRUE)

\* The last of three animation files was opened: a text file and a hidden
\* file before it were skipped.
C24_Witness ==
    /\ op.name = "openByIndex"
    /\ volume = VolumeFull
    /\ sk.numberOfFiles = 3
    /\ op.x = 2
    /\ op.str = NameThree
    /\ sdfile.open
    /\ sdfile.data = GifThree


(***************************************************************************)
(* Claims about the player that speak of the selected directory entry.      *)
(***************************************************************************)
\* The frames of the animation file that cur_image_idx selects.
SelectedFrames ==
    LET data == volume.entries[NthAnimation(volume, sk.cur_image_idx)].data
    IN  stbi_load_gif_from_memory(data, data.size).frames

\* C26: in the tick that accepts a LEFT or RIGHT press the file at the new
\* index is opened, and every decodeFrame call of that tick comes after that
\* open and after a successful startDecoding that follows it; and whenever
\* the decoder holds frames they are the frames of the selected file, so no
\* later decodeFrame draws a frame of the file selected before.
C26_NewSelectionReloads ==
    /\ hist.ir = "accepted" /\ hist.code \in {"LEFT", "RIGHT"}
          => /\ sk.cur_image_idx = WrappedIdx(hist.preIdx, hist.code)
             /\ \E k \in 1 .. Len(hist.log) :
                   hist.log[k] = <<"open", sk.cur_image_idx>>
             /\ \A j \in 1 .. Len(hist.log) :
                   hist.log[j][1] = "decodeFrame"
                     => \E k \in 1 .. j, m \in 1 .. j :
                          /\ k < m
                          /\ hist.log[k] = <<"open", sk.cur_image_idx>>
                          /\ hist.log[m] = <<"startDecoding", 0>>
    /\ pc = "loop" /\ HasSession(dec) => dec.frames = SelectedFrames

\* While the first animation was playing a LEFT press selected the last
\* one, and the same tick opened it, started it and decoded its first frame.
C26_Witness ==
    /\ hist.ir = "accepted"
    /\ hist.code = "LEFT"
    /\ hist.now > IRCooldown
    /\ ~hist.preBad
    /\ hist.preIdx = 0
    /\ sk.cur_image_idx = 2
    /\ \E j \in 1 .. Len(hist.log) : hist.log[j] = <<"decodeFrame", 0>>
    /\ dec.frames = stbi_load_gif_from_memory(GifThree, GifThree.size).frames


\* The layer after frame 0 of the decoder's animation is drawn on planes
\* that were blanked and published.
FirstFrameOnBlack ==
    decodeFrame([dec EXCEPT !.currentFrame = 0],
                [back |-> BlackPlane, front |-> BlackPlane]).layer

PlaySteps == {40, 60}
MaxPlayTime == 1400

InitPlayback ==
    /\ InitObjects
    /\ op = NoOp
    /\ volume \in {VolumeFull, VolumeOne}
    /\ sk = InitSketch
    /\ pc = "boot"

\* one call of loop(), a short while after the one before
PlayTick ==
    /\ pc = "loop"
    /\ \E dt \in PlaySteps :
          /\ clock + dt <= MaxPlayTime
          /\ TickAt(clock + dt, NoPress, IOWorks)
    /\ UNCHANGED <<volume, pc>>
    /\ UNCHANGED <<refreshVars, decoderHist, apiVars>>
    /\ UNCHANGED simVars

NextPlayback ==
    \/ Setup
    \/ PlayTick

SpecPlayback == InitPlayback /\ [][NextPlayback]_vars

\* Whether a tick's calls cleared, drew on or published the background
\* layer: the restart blanks and publishes it, decodeFrame clears, draws
\* and publishes.
TouchesBackground(log) ==
    \E k \in 1 .. Len(log) : log[k][1] \in {"startDecoding", "decodeFrame"}

\* C28: a tick that clears, draws on or publishes the background layer,
\* the selection unchanged, comes no earlier than the delay of the frame
\* published last after the time that frame was published.
C28_FrameHeldForDelay ==
    /\ hist.prePubTime >= 0
    /\ TouchesBackground(hist.log)
    /\ ~(hist.ir = "accepted" /\ hist.code \in {"LEFT", "RIGHT"})
    => hist.now >= hist.prePubTime + hist.prePubDelay


(***************************************************************************)
(* Quitting.  The render loop polls the SDL events at the top of each turn, *)
(* renders, and tests g_running before the next turn; after the loop main   *)
(* joins the Arduino thread.  That thread tests g_running between two       *)
(* loop() calls; halted in setup it tests nothing.                          *)
(***************************************************************************)
InitQuit ==
    /\ InitObjects
    /\ op = NoOp
    /\ sk = InitSketch
    /\ \/ pc = "loop" /\ volume = VolumeFull
       \/ pc = "halted" /\ volume \in {VolumeNoGifs, VolumeNoDir}

\* SDL_QUIT or the Q key is polled: g_running = false; the turn's pass follows
Quit ==
    /\ mainpc = "loop"
    /\ rpc = "idle"
    /\ running
    /\ running' = FALSE
    /\ passDone' = FALSE
    /\ UNCHANGED <<bg, apc, copyIdx, swapPending, rpc, rowY, rowsRead, lastPub,
                   oldAtStart, newAtStart, swapsInPass, published, screen, mainpc,
                   events>>
    /\ UNCHANGED <<playerVars, decoderHist, apiVars>>

\* while (g_running) of the Arduino thread, after a loop() call returned
ArduinoExit ==
    /\ pc = "loop"
    /\ apc = "idle"
    /\ ~running
    /\ pc' = "done"
    /\ passDone' = FALSE
    /\ UNCHANGED <<bg, apc, copyIdx, swapPending, rpc, rowY, rowsRead, lastPub,
                   oldAtStart, newAtStart, swapsInPass, published>>
    /\ UNCHANGED <<dec, sdfile, sk, volume, clock, hist, decoderHist, apiVars, simVars>>

\* arduinoThread.join() returns
MainJoin ==
    /\ mainpc = "join"
    /\ pc = "done"
    /\ mainpc' = "exited"
    /\ passDone' = FALSE
    /\ UNCHANGED <<bg, apc, copyIdx, swapPending, rpc, rowY, rowsRead, lastPub,
                   oldAtStart, newAtStart, swapsInPass, published, screen, running,
                   events>>
    /\ UNCHANGED <<playerVars, decoderHist, apiVars>>

NextQuit ==
    \/ NextRefresh
    \/ Quit
    \/ ArduinoExit
    \/ MainJoin

SpecQuit == InitQuit /\ [][NextQuit]_vars

\* Both threads run whenever they can take a step.
SpecQuitFair ==
    /\ SpecQuit
    /\ WF_vars(RenderBegin)
    /\ WF_vars(RenderRow)
    /\ WF_vars(RenderPresent)
    /\ WF_vars(SwapCopy)
    /\ WF_vars(ArduinoExit)
    /\ WF_vars(MainJoin)

\* C30: once g_running is false the Arduino thread terminates and main's
\* join returns.
C30_QuitEndsThreads ==
    (~running) ~> (pc = "done" /\ mainpc = "exited")


(***************************************************************************)
(* The SDL event queue.  The render loop of main drains it at the top of    *)
(* each turn, and IrReceiver.decode(), called by HandleIRInputs on the      *)
(* Arduino thread, polls the same queue.  An event is taken by whichever    *)
(* thread polls first.                                                      *)
(***************************************************************************)
MaxEvents == 2

\* A window close, and the press of a key that neither switch maps.
EventKinds == {"SDL_QUIT", "SDLK_a"}

RECURSIVE PollEvents(_)
\* main's while (SDL_PollEvent(&event)): stops at the first SDL_QUIT
PollEvents(q) ==
    IF q = << >> THEN [quit |-> FALSE, rest |-> << >>]
    ELSE IF Head(q) = "SDL_QUIT" THEN [quit |-> TRUE, rest |-> Tail(q)]
    ELSE PollEvents(Tail(q))

RECURSIVE IRrecv_decode(_)
\* IRrecv::decode: SDL_QUIT gives the raw code 0xFFFFFFFF, an unmapped key
\* is skipped
IRrecv_decode(q) ==
    IF q = << >> THEN [ir |-> NoPress, rest |-> << >>]
    ELSE IF Head(q) = "SDL_QUIT" THEN [ir |-> Press("QUIT"), rest |-> Tail(q)]
    ELSE IRrecv_decode(Tail(q))

InitEvents ==
    /\ InitObjects
    /\ op = NoOp
    /\ sk = InitSketch
    /\ volume = VolumeFull
    /\ pc = "boot"

\* The user closes the window or presses a key: SDL queues the event.
PostEvent ==
    /\ mainpc = "loop"
    /\ Len(events.queue) < MaxEvents
    /\ \E e \in EventKinds :
          events' = [queue |-> Append(events.queue, e),
                     quitPosted |-> events.quitPosted \/ e = "SDL_QUIT"]
    /\ UNCHANGED <<bg, playerVars, refreshVars, decoderHist, apiVars,
                   screen, running, mainpc>>

\* One turn of main's render loop: poll, render, test g_running.
MainTurn ==
    /\ mainpc = "loop"
    /\ \E r \in {PollEvents(events.queue)} :
          /\ events' = [events EXCEPT !.queue = r.rest]
          /\ running' = (running /\ ~r.quit)
          /\ mainpc' = IF running /\ ~r.quit THEN "loop" ELSE "join"
    /\ UNCHANGED <<bg, playerVars, refreshVars, decoderHist, apiVars, screen>>

\* One turn of the Arduino thread with g_running true: loop(), whose
\* HandleIRInputs polls the queue through IrReceiver.decode().
ArduinoLoop ==
    /\ pc = "loop"
    /\ running
    /\ \E dt \in TickSteps, d \in {IRrecv_decode(events.queue)} :
          /\ clock + dt <= MaxNow
          /\ TickAt(clock + dt, d.ir, IOWorks)
          /\ events' = [events EXCEPT !.queue = d.rest]
    /\ UNCHANGED <<volume, pc>>
    /\ UNCHANGED <<refreshVars, decoderHist, apiVars>>
    /\ UNCHANGED <<screen, running, mainpc>>

NextEvents ==
    \/ Setup
    \/ PostEvent
    \/ MainTurn
    \/ ArduinoLoop
    \/ ArduinoExit
    \/ MainJoin

SpecEvents == InitEvents /\ [][NextEvents]_vars

\* Both threads run whenever they can take a step.
SpecEventsFair ==
    /\ SpecEvents
    /\ WF_vars(Setup)
    /\ WF_vars(MainTurn)
    /\ WF_vars(ArduinoLoop)
    /\ WF_vars(ArduinoExit)
    /\ WF_vars(MainJoin)

\* C31: a window close that was posted to the SDL queue eventually sets
\* g_running to false.
C31_QuitNeverLost ==
    events.quitPosted ~> ~running


(***************************************************************************)
(* The remote's buttons.  After setup, HandleIRInputs is called again and   *)
(* again, each time with whatever IrReceiver.decode() yields; calls are     *)
(* 200 or 400 ms apart, so that presses fall inside and outside the         *)
(* cooldown.  hist records the call.                                        *)
(***************************************************************************)
MaxButtonTime == 6400

PressSteps == {200, 400}

\* PLAY stands for the buttons that only write their name to the overlay.
ButtonInputs == {Press(c) : c \in {"VOL_DOWN", "VOL_UP", "LEFT", "RIGHT", "PLAY"}}

InitButtons ==
    /\ InitObjects
    /\ op = NoOp
    /\ sk = InitSketch
    /\ volume = VolumeFull
    /\ pc = "boot"

\* HandleIRInputs called at clock + dt with ir decoded
ButtonPress ==
    /\ pc = "loop"
    /\ \E dt \in PressSteps, ir \in ButtonInputs :
          /\ clock + dt <= MaxButtonTime
          /\ \E w \in {HandleIRInputs(World, clock + dt, ir)} :
                /\ bg' = w.bg
                /\ sk' = [k \in DOMAIN sk |-> w[k]]
                /\ hist' = [NoHist EXCEPT !.ir = w.ir, !.code = ir.code,
                                          !.now = clock + dt, !.log = w.log,
                                          !.irPre = IRView(World),
                                          !.irPost = IRView(w),
                                          !.preLast = sk.lastAcceptedIRTimestamp,
                                          !.preIdx = sk.cur_image_idx]
          /\ clock' = clock + dt
    /\ UNCHANGED <<dec, sdfile, volume, pc>>
    /\ UNCHANGED <<refreshVars, decoderHist, apiVars>>
    /\ UNCHANGED simVars

NextButtons ==
    \/ Setup
    \/ ButtonPress

SpecButtons == InitButtons /\ [][NextButtons]_vars

\* C32: once setup has run, the brightness is within 0 .. max_brightness and
\* is the value last passed to matrix.setBrightness; an accepted VOL_UP adds
\* 26 capped at max_brightness and an accepted VOL_DOWN subtracts 26 floored
\* at 0.
C32_BrightnessClamped ==
    /\ pc = "loop" =>
          /\ sk.brightness \in 0 .. max_brightness
          /\ sk.matrixBrightness = sk.brightness
    /\ (hist.ir = "accepted" /\ hist.code = "VOL_UP") =>
          sk.brightness = IF hist.irPre.brightness + 26 > 180 THEN 180
                          ELSE hist.irPre.brightness + 26
    /\ (hist.ir = "accepted" /\ hist.code = "VOL_DOWN") =>
          sk.brightness = IF hist.irPre.brightness - 26 < 0 THEN 0
                          ELSE hist.irPre.brightness - 26

\* VOL_DOWN was accepted at brightness 24, reached from the cap, and floored.
C32_Witness ==
    /\ hist.ir = "accepted"
    /\ hist.code = "VOL_DOWN"
    /\ hist.irPre.brightness = 24
    /\ sk.brightness = 0
    /\ sk.matrixBrightness = 0


(***************************************************************************)
(* Claims about the selection index, checked on the player.                 *)
(***************************************************************************)
\* C33: in the playback loop 0 <= cur_image_idx < num_files; an accepted
\* RIGHT at the last index leads to 0 and an accepted LEFT at 0 to the last
\* index; every index handed to openGifFilenameByIndex is within the files
\* counted.
C33_IndexInRange ==
    /\ pc = "loop" =>
          /\ 0 <= sk.cur_image_idx
          /\ sk.cur_image_idx < sk.num_files
    /\ (hist.ir = "accepted" /\ hist.code = "RIGHT"
          /\ hist.preIdx = sk.num_files - 1) => sk.cur_image_idx = 0
    /\ (hist.ir = "accepted" /\ hist.code = "LEFT" /\ hist.preIdx = 0) =>
          sk.cur_image_idx = sk.num_files - 1
    /\ \A k \in 1 .. Len(hist.log) :
          hist.log[k][1] = "open" =>
             /\ 0 <= hist.log[k][2]
             /\ hist.log[k][2] < sk.numberOfFiles

\* RIGHT was accepted at the last of three files and file 0 was opened.
C33_Witness ==
    /\ hist.ir = "accepted"
    /\ hist.code = "RIGHT"
    /\ sk.num_files = 3
    /\ hist.preIdx = 2
    /\ sk.cur_image_idx = 0
    /\ \E k \in 1 .. Len(hist.log) : hist.log[k] = <<"open", 0>>

\* C34: when an accepted LEFT or RIGHT has changed the selection, both planes
\* of the background layer are black when HandleIRInputs returns, before
\* drawImageWithSD draws the newly selected file.
C34_BlackBeforeNewImage ==
    (hist.ir = "accepted" /\ hist.code \in {"LEFT", "RIGHT"}) =>
        /\ hist.irBg.front = BlackPlane
        /\ hist.irBg.back = BlackPlane

\* RIGHT was accepted while an image was shown, and the planes were cleared.
C34_Witness ==
    /\ hist.ir = "accepted"
    /\ hist.code = "RIGHT"
    /\ hist.preLit
    /\ sk.cur_image_idx # hist.preIdx
    /\ hist.irBg = [back |-> BlackPlane, front |-> BlackPlane]


(***************************************************************************)
(* Claims about the decoder's frames, checked on the decoder.               *)
(***************************************************************************)
\* The pixels the last call's drawPixel callbacks wrote.
DrawnPixels ==
    {call.cbs[k][3] * MatrixW + call.cbs[k][2] : k \in DrawsOf(call.cbs)}

\* C35: when decodeFrame has published a frame, every pixel that none of its
\* drawPixel calls wrote is black in the published plane and in the back
\* plane, whatever the planes held before the call.
C35_UndrawnIsBackground ==
    FrameDecoded =>
        \A i \in PixelIdx \ DrawnPixels :
            /\ bg.front[i] = COLOR_BLACK
            /\ bg.back[i] = COLOR_BLACK

\* A frame was published that leaves out a pixel an earlier frame had lit.
C35_Witness ==
    /\ FrameDecoded
    /\ \E i \in PixelIdx \ DrawnPixels :
          /\ call.preBg.back[i] # COLOR_BLACK
          /\ call.preBg.front[i] # COLOR_BLACK
          /\ bg.front[i] = COLOR_BLACK


\* C39: whenever the decoder holds a session its frame index lies in
\* 0 .. frameCount - 1 and within the decoded frames, whatever startDecoding
\* and decodeFrame calls came before; and every source pixel a decodeFrame
\* call sampled lies within the data of the frame it drew from.
C39_ReadsInBounds ==
    /\ HasSession(dec) =>
          /\ 0 <= dec.currentFrame
          /\ dec.currentFrame < dec.frameCount
          /\ dec.currentFrame < Len(dec.frames)
    /\ FrameDecoded =>
          \A x \in 0 .. (maxWidth - 1), y \in 0 .. (maxHeight - 1) :
              SourceOf(call.preDec, x, y).hit =>
                  SourceOf(call.preDec, x, y).idx \in DOMAIN FrameShown

\* The last frame of a stream of several frames was decoded and the index
\* went back to 0.
C39_Witness ==
    /\ FrameDecoded
    /\ call.preDec.frameCount >= 2
    /\ call.preDec.currentFrame = call.preDec.frameCount - 1
    /\ call.ret = -1
    /\ HasSession(dec)
    /\ dec.currentFrame = 0

(***************************************************************************)
(* Claims about HandleIRInputs, checked on the player.                      *)
(***************************************************************************)
\* C36: in every loop() call, an IrReceiver.decode() that returned true is
\* followed by IrReceiver.resume() before HandleIRInputs returns.
C36_ResumeAfterDecode ==
    \A k \in 1 .. Len(hist.log) :
        hist.log[k] = <<"decode", TRUE>> =>
            \E j \in (k + 1) .. Len(hist.log) : hist.log[j] = <<"resume">>

\* C37: a loop() call changes the brightness only when VOL_UP or VOL_DOWN was
\* accepted and the image index only when LEFT or RIGHT was accepted; a code
\* that is none of the remote's buttons moreover leaves the debug overlay,
\* its write time and the last-accepted timestamp as they were.
C37_OnlyMappedButtonsAct ==
    /\ sk.brightness # hist.irPre.brightness =>
          (hist.ir = "accepted" /\ hist.code \in {"VOL_UP", "VOL_DOWN"})
    /\ sk.cur_image_idx # hist.preIdx =>
          (hist.ir = "accepted" /\ hist.code \in {"LEFT", "RIGHT"})
    /\ (hist.ir # "none" /\ hist.code \notin ValidButtons) =>
          /\ hist.irPost = hist.irPre
          /\ sk.lastAcceptedIRTimestamp = hist.preLast

\* An unknown code arrived inside the cooldown of an accepted press and
\* changed nothing.
C37_Witness ==
    /\ hist.ir = "invalid"
    /\ hist.code = "QUIT"
    /\ hist.preLast > 0
    /\ hist.now - hist.preLast < IRCooldown
    /\ hist.irPost = hist.irPre
    /\ sk.lastAcceptedIRTimestamp = hist.preLast


(***************************************************************************)
(* The debug overlay.  loop() is called every 1000 or 1001 ms, so that a    *)
(* call falls exactly 3000 ms and just over 3000 ms after a message; PLAY   *)
(* writes a new message.                                                    *)
(***************************************************************************)
MaxOverlayTime == 7100

OverlaySteps == {1000, 1001}

InitOverlay ==
    /\ InitObjects
    /\ op = NoOp
    /\ sk = InitSketch
    /\ volume = VolumeOne
    /\ pc = "boot"

OverlayTick ==
    /\ pc = "loop"
    /\ \E dt \in OverlaySteps, ir \in {NoPress, Press("PLAY")} :
          /\ clock + dt <= MaxOverlayTime
          /\ TickAt(clock + dt, ir, IOWorks)
    /\ UNCHANGED <<volume, pc>>
    /\ UNCHANGED <<refreshVars, decoderHist, apiVars>>
    /\ UNCHANGED simVars

NextOverlay ==
    \/ Setup
    \/ OverlayTick

SpecOverlay == InitOverlay /\ [][NextOverlay]_vars

\* The last loop() call cleared the overlay.
ClearedNow == \E k \in 1 .. Len(hist.log) : hist.log[k] = <<"clearDebug">>

=============================================================================
